---- MODULE Spec2Model ----
(***************************************************************************)
(* Model of the Preacher.ai backend (backend/server.py): the sliding-window*)
(* rate limiter, the input normaliser and the chat request pipeline with   *)
(* its generation fallbacks.  Texts are sequences of Unicode code points.  *)
(***************************************************************************)
EXTENDS Integers, Sequences, FiniteSets, TLC

\* ---------------------------------------------------------------- constants
RATE_LIMIT_REQUESTS == 10
RATE_LIMIT_WINDOW == 60
MAX_USER_LENGTH == 1000
MAX_AI_LENGTH == 2500
MIN_QUESTION_LENGTH == 3
MIN_AI_RESPONSE_LENGTH == 10

\* ------------------------------------------------------------------- bounds
\* Number of request slots (coroutines of chat_endpoint that can be in flight).
MaxSlots == 2
\* Calls to POST /api/chat in one behaviour of the pipeline specification.
MaxCalls == 1
\* Calls in one behaviour of the rate-limiter specifications.
MaxRateCalls == 11
\* Requests with a well-formed body in one behaviour of SpecRate.
MaxRateValid == 1
\* Last instant of the clock in SpecRate.
MaxTime == 60
\* Longest generated text (significant characters) the generation service returns.
MaxGenLen == 10

\* -------------------------------------------------------------------- texts
SPACE == 32
Whitespace == {9, 10, 11, 12, 13, 28, 29, 30, 31, 32, 133, 160}
UnsafeChars == {60, 62, 123, 125}
IsSpace(c) == c \in Whitespace

Rep(c, n) == [i \in 1..n |-> c]

MinOf(S) == CHOOSE x \in S : \A y \in S : x <= y
MaxOf(S) == CHOOSE x \in S : \A y \in S : x >= y

\* str.strip()
Strip(s) ==
  LET keep == {i \in 1..Len(s) : ~IsSpace(s[i])}
  IN  IF keep = {} THEN <<>> ELSE SubSeq(s, MinOf(keep), MaxOf(keep))

\* str.rstrip()
RStrip(s) ==
  LET keep == {i \in 1..Len(s) : ~IsSpace(s[i])}
  IN  IF keep = {} THEN <<>> ELSE SubSeq(s, 1, MaxOf(keep))

\* re.sub(r'\s+', ' ', s): each run of whitespace becomes one blank
CollapseWhitespace(s) ==
  LET marked == [i \in 1..Len(s) |-> <<s[i], i > 1 /\ IsSpace(s[i-1])>>]
      kept == SelectSeq(marked, LAMBDA p : ~(IsSpace(p[1]) /\ p[2]))
  IN  [j \in 1..Len(kept) |-> IF IsSpace(kept[j][1]) THEN SPACE ELSE kept[j][1]]

\* re.sub(r'[<>{}]', '', s)
RemoveUnsafe(s) == SelectSeq(s, LAMBDA c : c \notin UnsafeChars)

Ellipsis == <<46, 46, 46>>
SentenceSep == <<46, 32>>

\* str.split('. '): the separators cannot overlap, so the segments are the
\* stretches between consecutive occurrences of ". "
Nth(P, j) == CHOOSE p \in P : Cardinality({q \in P : q <= p}) = j
Split(s) ==
  LET P == {i \in 1..(Len(s) - 1) : s[i] = 46 /\ s[i+1] = 32}
      n == Cardinality(P)
      first(k) == IF k = 1 THEN 1 ELSE Nth(P, k - 1) + 2
      last(k) == IF k = n + 1 THEN Len(s) ELSE Nth(P, k) - 1
  IN  [k \in 1..(n + 1) |-> SubSeq(s, first(k), last(k))]

\* the loop of validate_and_prepare_message that accumulates whole sentences
TruncateAtSentence(sentences, max_length) ==
  LET F[i \in 0..Len(sentences)] ==
        \* <<truncated, stopped>>
        IF i = 0 THEN <<<<>>, FALSE>>
        ELSE LET p == F[i-1] IN
             IF p[2] THEN p
             ELSE IF Len(p[1] \o sentences[i] \o SentenceSep) <= max_length
                  THEN <<p[1] \o sentences[i] \o SentenceSep, FALSE>>
                  ELSE <<p[1], TRUE>>
  IN  F[Len(sentences)][1]

validate_and_prepare_message(message, sender) ==
  IF Strip(message) = <<>> THEN <<>>
  ELSE
    LET max_length == IF sender = "user" THEN MAX_USER_LENGTH ELSE MAX_AI_LENGTH
        m1 == CollapseWhitespace(Strip(message))
        m2 == IF Len(m1) > max_length
              THEN IF sender = "ai"
                   THEN LET truncated == TruncateAtSentence(Split(m1), max_length)
                        IN  IF truncated # <<>> THEN RStrip(truncated)
                            ELSE SubSeq(m1, 1, max_length) \o Ellipsis
                   ELSE SubSeq(m1, 1, max_length) \o Ellipsis
              ELSE m1
    IN  RemoveUnsafe(m2)

\* variant: the two ends of the range are left out
detect_language_exclusive(text) ==
  IF \E i \in 1..Len(text) : 2304 < text[i] /\ text[i] < 2431
  THEN "hindi" ELSE "english"

\* detect_language
detect_language(text) ==
  IF \E i \in 1..Len(text) : 2304 <= text[i] /\ text[i] <= 2431
  THEN "hindi" ELSE "english"

\* server.py:310  Please ask a more specific question for biblical guidance.
PleaseAskText ==
  <<
    80, 108, 101, 97, 115, 101, 32, 97, 115, 107, 32, 97, 32, 109, 111, 114, 101, 32, 115, 112,
    101, 99, 105, 102, 105, 99, 32, 113, 117, 101, 115, 116, 105, 111, 110, 32, 102, 111, 114, 32,
    98, 105, 98, 108, 105, 99, 97, 108, 32, 103, 117, 105, 100, 97, 110, 99, 101, 46
  >>
\* server.py:319  I apologize, but I'm having trouble accessing the AI service right now. Please try again later.
NoKeyText ==
  <<
    73, 32, 97, 112, 111, 108, 111, 103, 105, 122, 101, 44, 32, 98, 117, 116, 32, 73, 39, 109,
    32, 104, 97, 118, 105, 110, 103, 32, 116, 114, 111, 117, 98, 108, 101, 32, 97, 99, 99, 101,
    115, 115, 105, 110, 103, 32, 116, 104, 101, 32, 65, 73, 32, 115, 101, 114, 118, 105, 99, 101,
    32, 114, 105, 103, 104, 116, 32, 110, 111, 119, 46, 32, 80, 108, 101, 97, 115, 101, 32, 116,
    114, 121, 32, 97, 103, 97, 105, 110, 32, 108, 97, 116, 101, 114, 46
  >>
\* server.py:380  I apologize for the delay. Please try asking your question again.
FallbackA ==
  <<
    73, 32, 97, 112, 111, 108, 111, 103, 105, 122, 101, 32, 102, 111, 114, 32, 116, 104, 101, 32,
    100, 101, 108, 97, 121, 46, 32, 80, 108, 101, 97, 115, 101, 32, 116, 114, 121, 32, 97, 115,
    107, 105, 110, 103, 32, 121, 111, 117, 114, 32, 113, 117, 101, 115, 116, 105, 111, 110, 32, 97,
    103, 97, 105, 110, 46
  >>
\* server.py:389  Let me think more about your question. Could you please rephrase it or provide more context?
FallbackB ==
  <<
    76, 101, 116, 32, 109, 101, 32, 116, 104, 105, 110, 107, 32, 109, 111, 114, 101, 32, 97, 98,
    111, 117, 116, 32, 121, 111, 117, 114, 32, 113, 117, 101, 115, 116, 105, 111, 110, 46, 32, 67,
    111, 117, 108, 100, 32, 121, 111, 117, 32, 112, 108, 101, 97, 115, 101, 32, 114, 101, 112, 104,
    114, 97, 115, 101, 32, 105, 116, 32, 111, 114, 32, 112, 114, 111, 118, 105, 100, 101, 32, 109,
    111, 114, 101, 32, 99, 111, 110, 116, 101, 120, 116, 63
  >>
\* server.py:408  I apologize, but I'm experiencing technical difficulties right now. Please try again in a moment. Remember, 'The Lord is near to all who call on him, to all who call on him in truth.' - Psalm 145:18
FallbackC_english ==
  <<
    73, 32, 97, 112, 111, 108, 111, 103, 105, 122, 101, 44, 32, 98, 117, 116, 32, 73, 39, 109,
    32, 101, 120, 112, 101, 114, 105, 101, 110, 99, 105, 110, 103, 32, 116, 101, 99, 104, 110, 105,
    99, 97, 108, 32, 100, 105, 102, 102, 105, 99, 117, 108, 116, 105, 101, 115, 32, 114, 105, 103,
    104, 116, 32, 110, 111, 119, 46, 32, 80, 108, 101, 97, 115, 101, 32, 116, 114, 121, 32, 97,
    103, 97, 105, 110, 32, 105, 110, 32, 97, 32, 109, 111, 109, 101, 110, 116, 46, 32, 82, 101,
    109, 101, 109, 98, 101, 114, 44, 32, 39, 84, 104, 101, 32, 76, 111, 114, 100, 32, 105, 115,
    32, 110, 101, 97, 114, 32, 116, 111, 32, 97, 108, 108, 32, 119, 104, 111, 32, 99, 97, 108,
    108, 32, 111, 110, 32, 104, 105, 109, 44, 32, 116, 111, 32, 97, 108, 108, 32, 119, 104, 111,
    32, 99, 97, 108, 108, 32, 111, 110, 32, 104, 105, 109, 32, 105, 110, 32, 116, 114, 117, 116,
    104, 46, 39, 32, 45, 32, 80, 115, 97, 108, 109, 32, 49, 52, 53, 58, 49, 56
  >>
\* server.py:409  (Devanagari text, server.py line 409)
FallbackC_hindi ==
  <<
    2350, 2369, 2333, 2375, 32, 2326, 2369, 2358, 2368, 32, 2361, 2376, 44, 32, 2354, 2375, 2325, 2367, 2344, 32,
    2350, 2376, 2306, 32, 2309, 2349, 2368, 32, 2340, 2325, 2344, 2368, 2325, 2368, 32, 2325, 2336, 2367, 2344, 2366,
    2311, 2351, 2379, 2306, 32, 2325, 2366, 32, 2360, 2366, 2350, 2344, 2366, 32, 2325, 2352, 32, 2352, 2361, 2366,
    32, 2361, 2370, 2306, 2404, 32, 2325, 2371, 2346, 2351, 2366, 32, 2319, 2325, 32, 2346, 2354, 32, 2350, 2375,
    2306, 32, 2347, 2367, 2352, 32, 2360, 2375, 32, 2325, 2379, 2358, 2367, 2358, 32, 2325, 2352, 2375, 2306, 2404
  >>
\* ----------------------------------------------------- session identifiers
\* Session ids are the strings a client can put in the request body.
SessionA == "123e4567-e89b-12d3-a456-426614174000"
SessionB == "9b2d7c1e-4f3a-4c6b-8d2e-5a1f0e9c7b34"
WellFormedIds == {SessionA, SessionB}
\* the session the single-session specifications talk to
PipelineIds == {SessionA}
MalformedIds == {"invalid-session"}
\* The request body is an untyped JSON object (message: dict), so the value
\* under "session_id" need not be a string; "#12345" stands for the JSON
\* number 12345.
NonStringIds == {"#12345"}
SessionIdInputs == PipelineIds \cup MalformedIds \cup {""} \cup NonStringIds

\* variant: every session gets the same id
uuid4_fixed(n) == "00000000-0000-4000-8000-000000000000"

\* str(uuid.uuid4()), the default of ChatSession.id: the n-th value drawn in
\* the life of the process, in the canonical 8-4-4-4-12 form.  The 122 random
\* bits are modelled as a value that was not drawn before.
uuid4(n) == "00000000-0000-4000-8000-00000000000" \o ToString(n)

MaxCreateCalls == 2
GeneratedIds == {uuid4(n) : n \in 1..MaxCreateCalls}

\* variant: every string passes for a session id
validate_session_id_any(session_id) == TRUE

\* uuid.UUID(session_id) raises ValueError unless the string is a UUID
validate_session_id(session_id) == session_id \in WellFormedIds \cup GeneratedIds

\* uuid.UUID(session_id) calls session_id.replace: on a value that is not a
\* string this raises AttributeError, which "except ValueError" lets through
validate_session_id_raises(session_id) == session_id \in NonStringIds

\* ------------------------------------------------------------ rate limiter
\* Network clients that send requests.
Callers == {"A", "B"}

\* client_id = "default_client"
ClientIdOf(caller) == "default_client"

ClientIds == {ClientIdOf(c) : c \in Callers}

\* variant: nothing is ever cleaned
Prune_keepAll(window, current_time) == window

\* the list comprehension that cleans old requests
Prune(window, current_time) ==
  SelectSeq(window, LAMBDA req_time : current_time - req_time < RATE_LIMIT_WINDOW)

\* variant: > instead of >=
RateLimitExceeded_offByOne(window) == Len(window) > RATE_LIMIT_REQUESTS

\* the check that raises HTTPException(429)
RateLimitExceeded(window) == Len(window) >= RATE_LIMIT_REQUESTS

\* variants: the request is recorded twice, the list is overwritten by a
\* stale copy, the request is not recorded
RecordRequest_twice(window, current_time) == Append(Append(window, current_time), current_time)
RecordRequest_overwrite(window, current_time) == <<current_time>>
RecordRequest_none(window, current_time) == window

\* variant: the request is put at the head of the list
RecordRequest_prepend(window, current_time) == <<current_time>> \o window

\* rate_limit_storage[client_id].append(current_time)
RecordRequest(window, current_time) == Append(window, current_time)

\* --------------------------------------------------------------- generation
GEN_TIMEOUT == 30

BiblicalResponse(response, cited_verses, language) ==
  [response |-> response, cited_verses |-> cited_verses, language |-> language]

\* variants: a table without the hindi entry and no default, a table that
\* ignores the language
fallback_responses_partial(language) ==
  IF language = "hindi" THEN <<>> ELSE FallbackC_english
fallback_responses_englishOnly(language) == FallbackC_english

\* variant: the citations of a sample search are attached to a fallback text
FallbackResponse_withVerses(response, language) ==
  BiblicalResponse(response, <<[reference |-> "Philippians 4:6",
                               text |-> "Do not be anxious about anything",
                               score |-> 4]>>, language)

\* the BiblicalResponse(response=<fixed text>, cited_verses=[], ...) returns
FallbackResponse(response, language) == BiblicalResponse(response, <<>>, language)

\* fallback_responses.get(language, fallback_responses["english"])
fallback_responses(language) ==
  IF language = "hindi" THEN FallbackC_hindi ELSE FallbackC_english

\* the input validation at the head of get_biblical_guidance
QuestionTooShort(user_message) ==
  user_message = <<>> \/ Len(Strip(user_message)) < MIN_QUESTION_LENGTH

\* variant: the length is taken without strip()
ResponseTooShort_noStrip(ai_response) ==
  ai_response = <<>> \/ Len(ai_response) < MIN_AI_RESPONSE_LENGTH

\* the validation of the generated text
ResponseTooShort(ai_response) ==
  ai_response = <<>> \/ Len(Strip(ai_response)) < MIN_AI_RESPONSE_LENGTH

\* ChatMessage validators: message not blank, session id well formed
ChatMessageValid(session_id, message) ==
  /\ message # <<>> /\ Strip(message) # <<>>
  /\ validate_session_id(session_id)

ChatMessage(session_id, message, sender, language, cited_verses, timestamp) ==
  [session_id |-> session_id, message |-> message, sender |-> sender,
   timestamp |-> timestamp, language |-> language, cited_verses |-> cited_verses]

ChatSession(id, language, created_at) ==
  [id |-> id, created_at |-> created_at, language |-> language, message_count |-> 0]

\* -------------------------------------------------------------------- state
VARIABLES
  now,                 \* time.time()
  rate_limit_storage,  \* client id -> list of admitted request times
  gemini_key,          \* whether GEMINI_API_KEY is set in the environment
  chat_sessions,       \* db.chat_sessions, in insertion order
  chat_messages,       \* db.chat_messages, in insertion order
  pc,                  \* slot -> await point the request is suspended at
  req,                 \* slot -> local variables of the request; raw_message,
                       \* gen, generated, retrieved and persisted record what
                       \* happened to the request (gen: what the generation
                       \* call did, retrieved: get_bible_verses was called,
                       \* attempts: how often chat.send_message was called)
  admitted,            \* history: the admitted calls to POST /api/chat, in order
  rejected,            \* history: the calls answered 429
  reply,               \* the last HTTP reply sent by POST /api/chat
  kb,                  \* model, english_index, english_verse_map, hindi_index,
                       \* hindi_verse_map: the globals built when the module loads
  retrieval,           \* a call of get_bible_verses on its own: arguments and result
  history,             \* the last reply of GET /api/chat/{session_id}
  created,             \* the replies of POST /api/session, in order
  stream,              \* one GET /api/stream/{session_id}: the generator's
                       \* position and locals, and the events it has yielded
  ws                   \* one connection to /ws/{session_id}: the handler's
                       \* position and locals, and the texts it has sent

vars == <<now, rate_limit_storage, gemini_key, chat_sessions, chat_messages,
          pc, req, admitted, rejected, reply, kb, retrieval, history,
          created, stream, ws>>

Slots == 1..MaxSlots

NoReq == [caller |-> ""]
NoReply == [caller |-> "", status |-> 0]

\* ---------------------------------------------------------------- retrieval
\* index.search(query_embedding, k=5)
TOP_K == 5
\* if distance < 10.0
SIMILARITY_THRESHOLD == 10
\* the distance faiss reports, with label -1, where the index has fewer than k
\* vectors (the largest float; any value above every real distance)
FLT_MAX == 1000
\* Verses in a corpus file.
MaxVerses == 6

\* storage/english_bible_verses.json and storage/hindi_bible_verses.json
EnglishVerses(n) ==
  [i \in 1..n |-> [book |-> "Psalms", chapter |-> 23, verse |-> i,
                   text |-> "english verse " \o ToString(i)]]
HindiVerses(n) ==
  [i \in 1..n |-> [book |-> "Bhajan Sanhita", chapter |-> 23, verse |-> i,
                   text |-> "hindi verse " \o ToString(i)]]

\* create_faiss_index(verses_data): (None, {}) without verses or without the
\* embedder, else an index over positions 0..n-1 and the map position -> verse
\* (verse_map[p + 1] is the verse at position p)
create_faiss_index(verses_data, model) ==
  IF verses_data = <<>> \/ ~model
  THEN [index |-> [built |-> FALSE, ntotal |-> 0], verse_map |-> <<>>]
  ELSE [index |-> [built |-> TRUE, ntotal |-> Len(verses_data)], verse_map |-> verses_data]

\* the module-level statements that load the corpora and the embedder and
\* build the two indexes
Startup(model, english_verses_data, hindi_verses_data) ==
  LET english == create_faiss_index(english_verses_data, model)
      hindi == create_faiss_index(hindi_verses_data, model)
  IN  [model |-> model,
       english_index |-> english.index, english_verse_map |-> english.verse_map,
       hindi_index |-> hindi.index, hindi_verse_map |-> hindi.verse_map]

\* the corpus files hold some verses or none; when either file is missing both
\* corpora are empty; the embedder loads or not
CorpusSizes == {0, 1, MaxVerses}
KbConfigs ==
  {Startup(model, EnglishVerses(e), HindiVerses(h)) :
     model \in BOOLEAN, e \in CorpusSizes, h \in CorpusSizes}
DefaultKb == Startup(TRUE, EnglishVerses(1), HindiVerses(1))

\* variant: every language is served from the English index
SelectIndex_englishOnly(language) ==
  [index |-> kb.english_index, verse_map |-> kb.english_verse_map]

\* "Use appropriate index based on language"
SelectIndex(language) ==
  IF language = "hindi"
  THEN [index |-> kb.hindi_index, verse_map |-> kb.hindi_verse_map]
  ELSE [index |-> kb.english_index, verse_map |-> kb.english_verse_map]

\* variant: the hits in position order, not by distance
Search_unsorted(distances, k) ==
  [j \in 1..k |->
     IF j <= Len(distances) THEN [label |-> j - 1, distance |-> distances[j]]
     ELSE [label |-> -1, distance |-> FLT_MAX]]

\* index.search on an IndexFlatL2: the k nearest positions in ascending
\* distance (equal distances in position order), padded with label -1;
\* distances[p + 1] is the distance of the query to the vector at position p
Search(distances, k) ==
  LET n == Len(distances)
      rank(p) == Cardinality({q \in 1..n : \/ distances[q] < distances[p]
                                           \/ distances[q] = distances[p] /\ q < p})
  IN  [j \in 1..k |->
         IF j <= n
         THEN LET p == CHOOSE p \in 1..n : rank(p) = j - 1
              IN  [label |-> p - 1, distance |-> distances[p]]
         ELSE [label |-> -1, distance |-> FLT_MAX]]

\* variant: a neighbour at the threshold is kept
WithinThreshold_inclusive(distance) == distance <= SIMILARITY_THRESHOLD

\* if distance < 10.0
WithinThreshold(distance) == distance < SIMILARITY_THRESHOLD

\* f"{verse['book']} {verse['chapter']}:{verse['verse']}", text, float(distance)
Citation(verse, distance) ==
  [reference |-> verse.book \o " " \o ToString(verse.chapter) \o ":" \o ToString(verse.verse),
   text |-> verse.text,
   score |-> distance]

RetrievalFailures == {"none", "encode", "search"}

\* variant: without the try/except around the search
get_bible_verses_unguarded(language, distances, failure) ==
  LET selected == SelectIndex(language)
      hits == Search(distances, TOP_K)
      kept == SelectSeq(hits, LAMBDA h : WithinThreshold(h.distance))
  IN  IF ~selected.index.built \/ ~kb.model
      THEN [raised |-> FALSE, verses |-> <<>>]
      ELSE IF failure # "none"
      THEN [raised |-> TRUE, verses |-> <<>>]
      ELSE [raised |-> FALSE,
            verses |-> [j \in 1..Len(kept) |->
                          Citation(selected.verse_map[kept[j].label + 1], kept[j].distance)]]

\* get_bible_verses(query, language): the query enters through its distances
\* to the vectors of the selected index; failure tells whether model.encode
\* or index.search raises.  The result is the list returned, raised being
\* whether an exception leaves the function.
get_bible_verses(language, distances, failure) ==
  LET selected == SelectIndex(language)
      hits == Search(distances, TOP_K)
      kept == SelectSeq(hits, LAMBDA h : WithinThreshold(h.distance))
      \* verse_map[i] raises KeyError for a label that is no position
      key_error == \E j \in 1..Len(kept) :
                     kept[j].label + 1 \notin 1..Len(selected.verse_map)
  IN  IF ~selected.index.built \/ ~kb.model
      THEN [raised |-> FALSE, verses |-> <<>>]
      ELSE IF failure # "none" \/ key_error
      THEN [raised |-> FALSE, verses |-> <<>>]
      ELSE [raised |-> FALSE,
            verses |-> [j \in 1..Len(kept) |->
                          Citation(selected.verse_map[kept[j].label + 1], kept[j].distance)]]

\* distances a query can have to the vectors of an index
Distances ==
  {0, SIMILARITY_THRESHOLD - 1, SIMILARITY_THRESHOLD, SIMILARITY_THRESHOLD + 1}
DistanceMaps(n) == [1..n -> Distances]

\* what get_bible_verses can return for a query in a language
RetrievalOutcomes(language) ==
  {get_bible_verses(language, distances, failure) :
     distances \in DistanceMaps(SelectIndex(language).index.ntotal),
     failure \in RetrievalFailures}

NoRetrieval == [called |-> FALSE]
NoHistory == [status |-> 0]
NoStream == [pc |-> "closed"]
NoSocket == [pc |-> "closed"]

Init ==
  /\ kb = DefaultKb
  /\ retrieval = NoRetrieval
  /\ history = NoHistory
  /\ created = <<>>
  /\ stream = NoStream
  /\ ws = NoSocket
  /\ now = 0
  /\ rate_limit_storage = [c \in ClientIds |-> <<>>]
  /\ gemini_key \in BOOLEAN
  /\ chat_sessions \in {<<>>} \cup {<<ChatSession(id, "english", 0)>> : id \in PipelineIds}
  /\ chat_messages = <<>>
  /\ pc = [s \in Slots |-> "idle"]
  /\ req = [s \in Slots |-> NoReq]
  /\ admitted = <<>>
  /\ rejected = {}
  /\ reply = NoReply

\* raise HTTPException(status_code, detail): the request ends with an error reply
HttpError(s, r, status_code, detail) ==
  /\ reply' = [caller |-> r.caller, status |-> status_code,
               detail |-> detail, gen |-> r.gen, persisted |-> r.persisted,
               retrieved |-> r.retrieved, raw_message |-> r.raw_message,
               user_message |-> r.user_message, session_id |-> r.session_id,
               language |-> r.language, attempts |-> r.attempts]
  /\ pc' = [pc EXCEPT ![s] = "idle"]
  /\ req' = [req EXCEPT ![s] = NoReq]

\* the request is suspended at an await with locals r
Suspend(s, r, at) ==
  /\ pc' = [pc EXCEPT ![s] = at]
  /\ req' = [req EXCEPT ![s] = r]
  /\ reply' = reply

\* variant: a status derived from the citations
ResponseStatus_byCitations(biblical_response) ==
  IF biblical_response.cited_verses = <<>> THEN "degraded" ELSE "success"

\* "status": "success" in the dictionary chat_endpoint returns
ResponseStatus(biblical_response) == "success"

\* the return statement of chat_endpoint
SendResponse(s, r) ==
  /\ reply' = [caller |-> r.caller, status |-> 200,
               detail |-> "", gen |-> r.gen, persisted |-> r.persisted,
               retrieved |-> r.retrieved, raw_message |-> r.raw_message,
               user_message |-> r.user_message, session_id |-> r.session_id,
               language |-> r.language, attempts |-> r.attempts,
               generated |-> r.generated,
               body |-> [response |-> r.biblical_response.response,
                         cited_verses |-> r.biblical_response.cited_verses,
                         session_id |-> r.session_id,
                         language |-> r.language,
                         status |-> ResponseStatus(r.biblical_response)]]
  /\ pc' = [pc EXCEPT ![s] = "idle"]
  /\ req' = [req EXCEPT ![s] = NoReq]

\* chat_endpoint from "Save user message" to the await of insert_one
PrepareUserMessage(s, r) ==
  IF ChatMessageValid(r.session_id, r.user_message)
  THEN Suspend(s, [r EXCEPT !.msg_time = now], "save_user")
  ELSE HttpError(s, r, 500, "Error saving message")

\* chat_endpoint from "Save AI response" to the await of insert_one; a
\* ChatMessage that fails validation is logged and the reply is sent at once
PrepareAiMessage(s, r) ==
  LET ai_response_text == validate_and_prepare_message(r.biblical_response.response, "ai")
  IN  IF ChatMessageValid(r.session_id, ai_response_text)
      THEN Suspend(s, [r EXCEPT !.ai_response_text = ai_response_text,
                                !.msg_time = now], "save_ai")
      ELSE SendResponse(s, r)

\* get_biblical_guidance up to the await of chat.send_message
StartGuidance(s, r) ==
  IF QuestionTooShort(r.user_message)
  THEN PrepareAiMessage(s, [r EXCEPT !.gen = "question_too_short",
         !.biblical_response = FallbackResponse(PleaseAskText, r.language)])
  ELSE IF ~gemini_key
  THEN PrepareAiMessage(s, [r EXCEPT !.gen = "no_key",
         !.biblical_response = FallbackResponse(NoKeyText, r.language)])
  ELSE Suspend(s, [r EXCEPT !.started = now, !.attempts = r.attempts + 1], "generate")

\* ------------------------------------------------------------------ actions
\* POST /api/chat: the rate_limit wrapper, then chat_endpoint up to its first
\* await (find_one).  Nothing in between yields to the event loop.
Call(s, maxCalls, callers, messages, session_ids) ==
  /\ pc[s] = "idle"
  /\ \A t \in Slots : t < s => pc[t] # "idle"
  /\ Len(admitted) < maxCalls
  /\ \E caller \in callers, message \in messages, sid \in session_ids :
       LET client_id == ClientIdOf(caller)
           current_time == now
           pruned == Prune(rate_limit_storage[client_id], current_time)
           r == [caller |-> caller, session_id |-> sid, raw_message |-> message,
                 user_message |-> Strip(message), language |-> "english",
                 gen |-> "none", generated |-> <<>>, persisted |-> FALSE,
                 retrieved |-> FALSE, attempts |-> 0,
                 started |-> 0, msg_time |-> 0, ai_response_text |-> <<>>,
                 biblical_response |-> BiblicalResponse(<<>>, <<>>, "english")]
       IN  IF RateLimitExceeded(pruned)
           THEN /\ rate_limit_storage' = [rate_limit_storage EXCEPT ![client_id] = pruned]
                /\ rejected' = rejected \cup {[at |-> current_time, caller |-> caller]}
                /\ UNCHANGED admitted
                /\ HttpError(s, r, 429, "Too many requests. Please wait before sending another message.")
           ELSE /\ rate_limit_storage' = [rate_limit_storage EXCEPT
                     ![client_id] = RecordRequest(pruned, current_time)]
                /\ admitted' = Append(admitted, [at |-> current_time, caller |-> caller])
                /\ UNCHANGED rejected
                /\ IF r.user_message = <<>>
                   THEN HttpError(s, r, 400, "Message cannot be empty")
                   ELSE IF sid = ""
                   THEN HttpError(s, r, 400, "Invalid session ID")
                   ELSE IF validate_session_id_raises(sid)
                   THEN HttpError(s, r, 500, "Internal server error occurred")
                   ELSE IF ~validate_session_id(sid)
                   THEN HttpError(s, r, 400, "Invalid session ID")
                   ELSE LET user_message == validate_and_prepare_message(r.user_message, "user")
                        IN  Suspend(s, [r EXCEPT !.user_message = user_message,
                                                 !.language = detect_language(user_message)],
                                    "find_session")
  /\ UNCHANGED <<created, stream, ws, kb, retrieval, history, now, gemini_key, chat_sessions, chat_messages>>

\* variant: a session record is inserted whether or not one was found
FindSession_alwaysInsert(s, dbOutcomes) ==
  /\ pc[s] = "find_session"
  /\ \E outcome \in dbOutcomes :
       LET r == req[s] IN
       IF outcome = "error"
       THEN HttpError(s, r, 500, "Internal server error occurred")
       ELSE Suspend(s, r, "insert_session")
  /\ UNCHANGED <<created, stream, ws, kb, retrieval, history, now, rate_limit_storage, gemini_key, chat_sessions,
                 chat_messages, admitted, rejected>>

\* db.chat_sessions.find_one returns (or raises)
FindSession(s, dbOutcomes) ==
  /\ pc[s] = "find_session"
  /\ \E outcome \in dbOutcomes :
       LET r == req[s]
           session_exists == \E i \in 1..Len(chat_sessions) : chat_sessions[i].id = r.session_id
       IN  IF outcome = "error"
           THEN HttpError(s, r, 500, "Internal server error occurred")
           ELSE IF ~session_exists
           THEN Suspend(s, r, "insert_session")
           ELSE PrepareUserMessage(s, r)
  /\ UNCHANGED <<created, stream, ws, kb, retrieval, history, now, rate_limit_storage, gemini_key, chat_sessions, chat_messages, admitted, rejected>>

\* db.chat_sessions.insert_one returns (or raises)
InsertSession(s, dbOutcomes) ==
  /\ pc[s] = "insert_session"
  /\ \E outcome \in dbOutcomes :
       LET r == req[s] IN
       IF outcome = "error"
       THEN /\ HttpError(s, r, 500, "Internal server error occurred")
            /\ UNCHANGED chat_sessions
       ELSE /\ chat_sessions' = Append(chat_sessions, ChatSession(r.session_id, r.language, now))
            /\ PrepareUserMessage(s, r)
  /\ UNCHANGED <<created, stream, ws, kb, retrieval, history, now, rate_limit_storage, gemini_key, chat_messages, admitted, rejected>>

\* variant: the message to store is built from the locals of the request
\* that was suspended last, as if they were kept in a module-level variable
SaveUserMessage_shared(s, dbOutcomes) ==
  /\ pc[s] = "save_user"
  /\ \E outcome \in dbOutcomes :
       LET r == req[s]
           shared == req[MaxOf({t \in Slots : pc[t] # "idle"})]
       IN
       IF outcome = "error"
       THEN /\ HttpError(s, r, 500, "Error saving message")
            /\ UNCHANGED chat_messages
       ELSE /\ chat_messages' = Append(chat_messages,
                 ChatMessage(shared.session_id, shared.user_message, "user",
                             shared.language, <<>>, shared.msg_time))
            /\ StartGuidance(s, [r EXCEPT !.persisted = TRUE])
  /\ UNCHANGED <<created, stream, ws, kb, retrieval, history, now, rate_limit_storage, gemini_key, chat_sessions, admitted, rejected>>

\* variant: the user message is not written before the guidance starts
SaveUserMessage_skipped(s, dbOutcomes) ==
  /\ pc[s] = "save_user"
  /\ \E outcome \in dbOutcomes :
       LET r == req[s] IN
       IF outcome = "error"
       THEN HttpError(s, r, 500, "Error saving message")
       ELSE StartGuidance(s, [r EXCEPT !.persisted = TRUE])
  /\ UNCHANGED <<created, stream, ws, kb, retrieval, history, now, rate_limit_storage, gemini_key, chat_sessions, chat_messages,
                 admitted, rejected>>

\* variant: a failed insert of the user message is only logged
SaveUserMessage_dropped(s, dbOutcomes) ==
  /\ pc[s] = "save_user"
  /\ \E outcome \in dbOutcomes :
       LET r == req[s] IN
       IF outcome = "error"
       THEN /\ StartGuidance(s, r)
            /\ UNCHANGED chat_messages
       ELSE /\ chat_messages' = Append(chat_messages,
                 ChatMessage(r.session_id, r.user_message, "user", r.language, <<>>, r.msg_time))
            /\ StartGuidance(s, [r EXCEPT !.persisted = TRUE])
  /\ UNCHANGED <<created, stream, ws, kb, retrieval, history, now, rate_limit_storage, gemini_key, chat_sessions, admitted, rejected>>

\* db.chat_messages.insert_one(user_msg_dict) returns (or raises)
SaveUserMessage(s, dbOutcomes) ==
  /\ pc[s] = "save_user"
  /\ \E outcome \in dbOutcomes :
       LET r == req[s] IN
       IF outcome = "error"
       THEN /\ HttpError(s, r, 500, "Error saving message")
            /\ UNCHANGED chat_messages
       ELSE /\ chat_messages' = Append(chat_messages,
                 ChatMessage(r.session_id, r.user_message, "user", r.language, <<>>, r.msg_time))
            /\ StartGuidance(s, [r EXCEPT !.persisted = TRUE])
  /\ UNCHANGED <<created, stream, ws, kb, retrieval, history, now, rate_limit_storage, gemini_key, chat_sessions, admitted, rejected>>

\* variant: the wait on the generation service has no time limit
TimedOut_never(r) == FALSE

\* timeout=30.0 of asyncio.wait_for: the wait of request r has lasted 30 s
TimedOut(r) == now - r.started >= GEN_TIMEOUT

\* variant: after a timeout or an exception the service is asked once more
Generate_retry(s, failures, texts) ==
  /\ pc[s] = "generate"
  /\ LET r == req[s]
         Degraded(kind, text) ==
           IF r.attempts < 2
           THEN Suspend(s, [r EXCEPT !.started = now, !.attempts = r.attempts + 1], "generate")
           ELSE PrepareAiMessage(s, [r EXCEPT !.gen = kind,
                  !.biblical_response = FallbackResponse(text, r.language)])
     IN  \/ /\ TimedOut(r)
            /\ Degraded("timeout", FallbackA)
         \/ /\ ~TimedOut(r)
            /\ \E failure \in failures : Degraded("exception", fallback_responses(r.language))
         \/ /\ ~TimedOut(r)
            /\ \E ai_response \in texts :
                 IF ResponseTooShort(ai_response)
                 THEN PrepareAiMessage(s, [r EXCEPT !.gen = "text",
                        !.generated = ai_response,
                        !.biblical_response = FallbackResponse(FallbackB, r.language)])
                 ELSE \E found \in RetrievalOutcomes(r.language) :
                        IF found.raised
                        THEN PrepareAiMessage(s, [r EXCEPT !.gen = "exception",
                               !.generated = ai_response, !.retrieved = TRUE,
                               !.biblical_response =
                                  FallbackResponse(fallback_responses(r.language), r.language)])
                        ELSE PrepareAiMessage(s, [r EXCEPT !.gen = "text",
                               !.generated = ai_response, !.retrieved = TRUE,
                               !.biblical_response =
                                  BiblicalResponse(ai_response, found.verses, r.language)])
  /\ UNCHANGED <<created, stream, ws, kb, retrieval, history, now, rate_limit_storage, gemini_key, chat_sessions, chat_messages, admitted, rejected>>

\* asyncio.wait_for(chat.send_message(user_msg), timeout=30.0) completes:
\* with TimeoutError once 30 s have passed, before that with the service's
\* text or with an exception; then the rest of get_biblical_guidance and
\* chat_endpoint up to the await of the second insert_one
Generate(s, failures, texts) ==
  /\ pc[s] = "generate"
  /\ LET r == req[s]
         Degraded(kind, text) ==
           PrepareAiMessage(s, [r EXCEPT !.gen = kind,
             !.biblical_response = FallbackResponse(text, r.language)])
     IN  \/ /\ TimedOut(r)
            /\ Degraded("timeout", FallbackA)
         \/ /\ ~TimedOut(r)
            /\ \E failure \in failures : Degraded("exception", fallback_responses(r.language))
         \/ /\ ~TimedOut(r)
            /\ \E ai_response \in texts :
                 IF ResponseTooShort(ai_response)
                 THEN PrepareAiMessage(s, [r EXCEPT !.gen = "text",
                        !.generated = ai_response,
                        !.biblical_response = FallbackResponse(FallbackB, r.language)])
                 ELSE \E found \in RetrievalOutcomes(r.language) :
                        IF found.raised
                        THEN PrepareAiMessage(s, [r EXCEPT !.gen = "exception",
                               !.generated = ai_response, !.retrieved = TRUE,
                               !.biblical_response =
                                  FallbackResponse(fallback_responses(r.language), r.language)])
                        ELSE PrepareAiMessage(s, [r EXCEPT !.gen = "text",
                               !.generated = ai_response, !.retrieved = TRUE,
                               !.biblical_response =
                                  BiblicalResponse(ai_response, found.verses, r.language)])
  /\ UNCHANGED <<created, stream, ws, kb, retrieval, history, now, rate_limit_storage, gemini_key, chat_sessions, chat_messages, admitted, rejected>>

\* variant: a failed insert of the assistant message fails the request
SaveAiMessage_fatal(s, dbOutcomes) ==
  /\ pc[s] = "save_ai"
  /\ \E outcome \in dbOutcomes :
       LET r == req[s] IN
       IF outcome = "error"
       THEN /\ UNCHANGED chat_messages
            /\ HttpError(s, r, 500, "Error saving message")
       ELSE /\ chat_messages' = Append(chat_messages,
                 ChatMessage(r.session_id, r.ai_response_text, "ai", r.language,
                             r.biblical_response.cited_verses, r.msg_time))
            /\ SendResponse(s, r)
  /\ UNCHANGED <<created, stream, ws, kb, retrieval, history, now, rate_limit_storage, gemini_key, chat_sessions, admitted, rejected>>

\* db.chat_messages.insert_one(ai_msg_dict) returns (or raises, which is
\* logged only), then chat_endpoint returns the response
SaveAiMessage(s, dbOutcomes) ==
  /\ pc[s] = "save_ai"
  /\ \E outcome \in dbOutcomes :
       LET r == req[s] IN
       /\ IF outcome = "error"
          THEN UNCHANGED chat_messages
          ELSE chat_messages' = Append(chat_messages,
                 ChatMessage(r.session_id, r.ai_response_text, "ai", r.language,
                             r.biblical_response.cited_verses, r.msg_time))
       /\ SendResponse(s, r)
  /\ UNCHANGED <<created, stream, ws, kb, retrieval, history, now, rate_limit_storage, gemini_key, chat_sessions, admitted, rejected>>

\* variant: the reply is sent without the session being inserted
CreateSession_noInsert(maxCalls, dbOutcomes) ==
  /\ Len(created) < maxCalls
  /\ \E outcome \in dbOutcomes :
       LET session == ChatSession(uuid4(Len(created) + 1), "english", now)
       IN  /\ UNCHANGED chat_sessions
           /\ created' = Append(created,
                 [status |-> 200, session_id |-> session.id, created_at |-> session.created_at])
  /\ UNCHANGED <<stream, ws, kb, retrieval, history, now, rate_limit_storage, gemini_key,
                 chat_messages, pc, req, admitted, rejected, reply>>

\* POST /api/session: create_session from ChatSession() to its return; the
\* insert takes effect, or raises, at the only await
CreateSession(maxCalls, dbOutcomes) ==
  /\ Len(created) < maxCalls
  /\ \E outcome \in dbOutcomes :
       LET session == ChatSession(uuid4(Len(created) + 1), "english", now)
       IN  IF outcome = "error"
           THEN /\ UNCHANGED chat_sessions
                /\ created' = Append(created,
                      [status |-> 500, session_id |-> session.id,
                       detail |-> "Error creating session"])
           ELSE /\ chat_sessions' = Append(chat_sessions, session)
                /\ created' = Append(created,
                      [status |-> 200, session_id |-> session.id,
                       created_at |-> session.created_at])
  /\ UNCHANGED <<stream, ws, kb, retrieval, history, now, rate_limit_storage, gemini_key,
                 chat_messages, pc, req, admitted, rejected, reply>>

\* .limit(200).to_list(200)
HISTORY_LIMIT == 200

\* .sort("timestamp", 1): ascending timestamps, equal ones in insertion order
\* (the list and the ranks are bound by quantifiers so that each is computed once)
SortByTimestamp(messages) ==
  LET Ranked(m) ==
        LET Placed(rank) ==
              [k \in 1..Len(m) |-> m[CHOOSE i \in 1..Len(m) : rank[i] = k - 1]]
        IN  CHOOSE sorted \in
              {Placed(rank) :
                 rank \in {[i \in 1..Len(m) |->
                             Cardinality({j \in 1..Len(m) :
                                \/ m[j].timestamp < m[i].timestamp
                                \/ m[j].timestamp = m[i].timestamp /\ j < i})]}} : TRUE
  IN  CHOOSE sorted \in {Ranked(m) : m \in {messages}} : TRUE

\* variant: the messages of every session, in insertion order
find_messages_unfiltered(session_id) ==
  SubSeq(chat_messages, 1, MinOf({Len(chat_messages), HISTORY_LIMIT}))

\* db.chat_messages.find({"session_id": session_id}).sort("timestamp", 1)
\*   .limit(200).to_list(200)
find_messages(session_id) ==
  CHOOSE found \in
    {SubSeq(sorted, 1, MinOf({Len(sorted), HISTORY_LIMIT})) :
       sorted \in {SortByTimestamp(SelectSeq(chat_messages,
                                            LAMBDA m : m.session_id = session_id))}} : TRUE

\* GET /api/chat/{session_id}: get_chat_history from the validation of the id
\* to the reply; the store is read once, by the find
GetHistory(session_ids, dbOutcomes) ==
  /\ \E session_id \in session_ids, outcome \in dbOutcomes :
       history' =
         IF ~validate_session_id(session_id)
         THEN [session_id |-> session_id, status |-> 400,
               detail |-> "Invalid session ID format", messages |-> <<>>]
         ELSE IF outcome = "error"
         THEN [session_id |-> session_id, status |-> 500,
               detail |-> "Error retrieving chat history", messages |-> <<>>]
         ELSE [session_id |-> session_id, status |-> 200,
               detail |-> "", messages |-> find_messages(session_id)]
  /\ UNCHANGED <<created, stream, ws, kb, retrieval, now, rate_limit_storage, gemini_key, chat_sessions,
                 chat_messages, pc, req, admitted, rejected, reply>>

\* get_bible_verses called on its own, before any chat request: a language
\* and a query, the query given by its distances to the vectors of that
\* language's index and by whether embedding or searching it raises
Retrieve(languages, failures) ==
  /\ ~retrieval.called
  /\ admitted = <<>> /\ rejected = {}
  /\ \E language \in languages, failure \in failures :
       \E distances \in DistanceMaps(SelectIndex(language).index.ntotal) :
         retrieval' = [called |-> TRUE, language |-> language, distances |-> distances,
                       failure |-> failure,
                       hits |-> Search(distances, TOP_K),
                       result |-> get_bible_verses(language, distances, failure)]
  /\ UNCHANGED <<created, stream, ws, kb, history, now, rate_limit_storage, gemini_key, chat_sessions,
                 chat_messages, pc, req, admitted, rejected, reply>>

\* the "message" frame websocket_endpoint sends after get_biblical_guidance
\* has returned, then the loop is back at receive_text
WsSendResponse(w, gen, biblical_response) ==
  [w EXCEPT !.pc = "receive", !.gen = gen,
            !.sent = Append(@, [type |-> "message",
                                 response |-> biblical_response.response,
                                 cited_verses |-> biblical_response.cited_verses,
                                 session_id |-> w.session_id,
                                 language |-> w.language])]

\* /ws/{session_id} is opened: manager.connect accepts the socket and the
\* "connected" frame is sent; the handler waits at receive_text
WsConnect(callers, session_ids) ==
  /\ ws = NoSocket
  /\ \E caller \in callers, session_id \in session_ids :
       ws' = [pc |-> "receive", caller |-> caller, session_id |-> session_id,
              frames |-> 0, received |-> 0, started |-> 0,
              raw_message |-> <<>>, user_message |-> <<>>, language |-> "english",
              gen |-> "none", attempts |-> 0,
              sent |-> <<[type |-> "connected", session_id |-> session_id]>>]
  /\ UNCHANGED <<created, stream, kb, retrieval, history, now, rate_limit_storage, gemini_key,
                 chat_sessions, chat_messages, pc, req, admitted, rejected, reply>>

\* receive_text returns a frame {"message": ...}: websocket_endpoint from
\* message_data.get to the await of chat.send_message inside
\* get_biblical_guidance, or, where get_biblical_guidance returns at once, to
\* the next receive_text
WsReceive(maxFrames, messages) ==
  /\ ws.pc = "receive"
  /\ ws.frames < maxFrames
  /\ \E message \in messages :
       LET user_message == message
           language == detect_language(user_message)
           w == [ws EXCEPT !.frames = @ + 1, !.received = now, !.raw_message = message,
                           !.user_message = user_message, !.language = language,
                           !.sent = Append(@, [type |-> "typing"])]
       IN  ws' = IF QuestionTooShort(user_message)
                 THEN WsSendResponse(w, "question_too_short",
                                     FallbackResponse(PleaseAskText, language))
                 ELSE IF ~gemini_key
                 THEN WsSendResponse(w, "no_key", FallbackResponse(NoKeyText, language))
                 ELSE [w EXCEPT !.pc = "generate", !.started = now, !.attempts = @ + 1]
  /\ UNCHANGED <<created, stream, kb, retrieval, history, now, rate_limit_storage, gemini_key,
                 chat_sessions, chat_messages, pc, req, admitted, rejected, reply>>

\* asyncio.wait_for(chat.send_message(user_msg), timeout=30.0) completes for
\* the socket's frame; the rest of get_biblical_guidance, then the "message"
\* frame is sent
WsGenerate(failures, texts) ==
  /\ ws.pc = "generate"
  /\ \/ /\ TimedOut(ws)
        /\ ws' = WsSendResponse(ws, "timeout", FallbackResponse(FallbackA, ws.language))
     \/ /\ ~TimedOut(ws)
        /\ \E failure \in failures :
             ws' = WsSendResponse(ws, "exception",
                     FallbackResponse(fallback_responses(ws.language), ws.language))
     \/ /\ ~TimedOut(ws)
        /\ \E ai_response \in texts :
             IF ResponseTooShort(ai_response)
             THEN ws' = WsSendResponse(ws, "text", FallbackResponse(FallbackB, ws.language))
             ELSE \E found \in RetrievalOutcomes(ws.language) :
                    ws' = IF found.raised
                          THEN WsSendResponse(ws, "exception",
                                 FallbackResponse(fallback_responses(ws.language), ws.language))
                          ELSE WsSendResponse(ws, "text",
                                 BiblicalResponse(ai_response, found.verses, ws.language))
  /\ UNCHANGED <<created, stream, kb, retrieval, history, now, rate_limit_storage, gemini_key,
                 chat_sessions, chat_messages, pc, req, admitted, rejected, reply>>

\* receive_text raises (the peer has gone): the exception is logged and
\* manager.disconnect removes the socket
WsDisconnect ==
  /\ ws.pc = "receive"
  /\ ws' = [ws EXCEPT !.pc = "closed"]
  /\ UNCHANGED <<created, stream, kb, retrieval, history, now, rate_limit_storage, gemini_key,
                 chat_sessions, chat_messages, pc, req, admitted, rejected, reply>>

\* .to_list(1000) in event_generator
STREAM_LIMIT == 1000
\* await asyncio.sleep(5)
POLL_INTERVAL == 5

\* db.chat_messages.find({"session_id": session_id}).sort("timestamp", 1)
\*   .to_list(1000)
find_stream_messages(session_id) ==
  CHOOSE found \in
    {SubSeq(sorted, 1, MinOf({Len(sorted), STREAM_LIMIT})) :
       sorted \in {SortByTimestamp(SelectSeq(chat_messages,
                                            LAMBDA m : m.session_id = session_id))}} : TRUE

\* GET /api/stream/{session_id}: the generator starts, yields "connected" and
\* sets last_message_count; opened_at records how many messages the store
\* held at that moment
StreamOpen(session_ids) ==
  /\ stream = NoStream
  /\ \E session_id \in session_ids :
       stream' = [pc |-> "poll", session_id |-> session_id, last_message_count |-> 0,
                  wake |-> now, polls |-> 0, opened_at |-> Len(chat_messages),
                  events |-> <<[type |-> "connected", session_id |-> session_id]>>]
  /\ UNCHANGED <<created, ws, kb, retrieval, history, now, rate_limit_storage, gemini_key,
                 chat_sessions, chat_messages, pc, req, admitted, rejected, reply>>

\* one turn of the loop of event_generator, once the sleep is over: the find
\* returns, the latest message is yielded if the count has grown, then the
\* heartbeat, then the generator sleeps; a find that raises yields "error"
\* and ends the generator
StreamPoll(maxPolls, dbOutcomes) ==
  /\ stream.pc = "poll"
  /\ stream.polls < maxPolls
  /\ now >= stream.wake
  /\ \E outcome \in dbOutcomes :
       IF outcome = "error"
       THEN stream' = [stream EXCEPT !.pc = "closed", !.polls = @ + 1,
                         !.events = Append(@, [type |-> "error",
                                               message |-> "Stream error occurred"])]
       ELSE \E messages \in {find_stream_messages(stream.session_id)} :
              LET current_count == Len(messages)
                  grown == current_count > stream.last_message_count
                  yielded == IF grown
                             THEN Append(stream.events,
                                    [type |-> "new_message",
                                     message |-> messages[Len(messages)]])
                             ELSE stream.events
              IN  stream' = [stream EXCEPT
                    !.polls = @ + 1,
                    !.last_message_count = IF grown THEN current_count ELSE @,
                    !.events = Append(yielded, [type |-> "heartbeat", timestamp |-> now]),
                    !.wake = now + POLL_INTERVAL]
  /\ UNCHANGED <<created, ws, kb, retrieval, history, now, rate_limit_storage, gemini_key,
                 chat_sessions, chat_messages, pc, req, admitted, rejected, reply>>

\* the client closes the stream: the generator is closed where it is suspended
StreamClose ==
  /\ stream.pc = "poll"
  /\ stream' = [stream EXCEPT !.pc = "closed"]
  /\ UNCHANGED <<created, ws, kb, retrieval, history, now, rate_limit_storage, gemini_key,
                 chat_sessions, chat_messages, pc, req, admitted, rejected, reply>>

\* the clock advances
Tick(maxTime, steps) ==
  /\ \E d \in steps : now + d <= maxTime /\ now' = now + d
  /\ UNCHANGED <<created, stream, ws, kb, retrieval, history, rate_limit_storage, gemini_key, chat_sessions,
                 chat_messages, pc, req, admitted, rejected, reply>>

\* ------------------------------------------------------------------- inputs
MsgEmpty == <<>>
\* "  "
MsgBlank == <<SPACE, SPACE>>
\* "hi"
MsgShort == <<104, 105>>
\* "<>"
MsgMarkup == <<60, 62>>
\* " help  me"
MsgEnglish == <<32, 104, 101, 108, 112, 32, 32, 109, 101>>
\* Devanagari "shanti"
MsgHindi == <<2358, 2366, 2306, 2340, 2367>>
Messages == {MsgEmpty, MsgBlank, MsgShort, MsgMarkup, MsgEnglish, MsgHindi}

\* texts the generation service returns: n letters, bare or padded with blanks
GenLetters(n) == Rep(97, n)
GenLens == {MIN_AI_RESPONSE_LENGTH - 1, MaxGenLen}
GenTexts ==
  {<<>>} \cup {<<SPACE>> \o GenLetters(n) \o <<SPACE>> : n \in GenLens}
GenFailures == {"exception"}
DbOutcomes == {"ok", "error"}
TickSteps == {30}
MaxPipeTime == 30

\* ----------------------------------------------------------- specifications
Next ==
  \/ \E s \in Slots : Call(s, MaxCalls, {"A"}, Messages, SessionIdInputs)
  \/ \E s \in Slots : FindSession(s, DbOutcomes)
  \/ \E s \in Slots : InsertSession(s, DbOutcomes)
  \/ \E s \in Slots : SaveUserMessage(s, DbOutcomes)
  \/ \E s \in Slots : Generate(s, GenFailures, GenTexts)
  \/ \E s \in Slots : SaveAiMessage(s, DbOutcomes)
  \/ Tick(MaxPipeTime, TickSteps)

Spec == Init /\ [][Next]_vars

\* The rate limiter under many calls: one caller, one message text, a
\* generation service that answers, a store that works; at most MaxRateValid
\* of the requests carry a well-formed session id, the others a malformed one.
WellFormedCalls ==
  Cardinality({i \in 1..Len(chat_messages) : chat_messages[i].sender = "user"})
  + Cardinality({s \in Slots : pc[s] \in {"find_session", "insert_session", "save_user"}})
RateSessionIds ==
  IF WellFormedCalls < MaxRateValid THEN PipelineIds \cup MalformedIds ELSE MalformedIds
RateGenTexts == {GenLetters(MIN_AI_RESPONSE_LENGTH)}

NextRate ==
  \/ \E s \in Slots : Call(s, MaxRateCalls, {"A"}, {MsgEnglish}, RateSessionIds)
  \/ \E s \in Slots : FindSession(s, {"ok"})
  \/ \E s \in Slots : InsertSession(s, {"ok"})
  \/ \E s \in Slots : SaveUserMessage(s, {"ok"})
  \/ \E s \in Slots : Generate(s, {}, RateGenTexts)
  \/ \E s \in Slots : SaveAiMessage(s, {"ok"})
  \/ Tick(MaxTime, TickSteps)

InitRate ==
  Init /\ gemini_key /\ chat_sessions = <<>>

SpecRate == InitRate /\ [][NextRate]_vars

\* Two network clients calling at one instant.
NextClients ==
  \/ \E s \in Slots : Call(s, MaxRateCalls, Callers, {MsgEnglish}, RateSessionIds)
  \/ \E s \in Slots : FindSession(s, {"ok"})
  \/ \E s \in Slots : InsertSession(s, {"ok"})
  \/ \E s \in Slots : SaveUserMessage(s, {"ok"})
  \/ \E s \in Slots : Generate(s, {}, RateGenTexts)
  \/ \E s \in Slots : SaveAiMessage(s, {"ok"})

SpecClients == InitRate /\ [][NextClients]_vars

\* Several requests for one existing session in flight at once: one message
\* text, a store whose lookups work and whose message inserts may fail, a
\* generation service that answers or times out.
MaxStoreCalls == 2

NextStore ==
  \/ \E s \in Slots : Call(s, MaxStoreCalls, {"A"}, {MsgEnglish}, PipelineIds)
  \/ \E s \in Slots : FindSession(s, {"ok"})
  \/ \E s \in Slots : SaveUserMessage(s, DbOutcomes)
  \/ \E s \in Slots : Generate(s, {}, RateGenTexts)
  \/ \E s \in Slots : SaveAiMessage(s, DbOutcomes)
  \/ Tick(MaxPipeTime, TickSteps)

InitStore ==
  Init /\ gemini_key /\ chat_sessions # <<>>

SpecStore == InitStore /\ [][NextStore]_vars

\* Long and marked-up texts: inbound texts at, just over and well over the
\* user limit, generated texts at and over the assistant limit (with and
\* without sentence boundaries) and a generated text with markup and a run of
\* blanks; a store that works.
MaxTextCalls == 1
MaxUserInput == 1500
MaxSentence == 1500

LongMessages ==
  {MsgEnglish, Rep(65, MAX_USER_LENGTH), Rep(65, MAX_USER_LENGTH + 1), Rep(65, MaxUserInput)}

\* "<b>" letters, two blanks, letters "</b>"
GenMarkup ==
  <<60, 98, 62>> \o GenLetters(MaxGenLen) \o <<SPACE, SPACE>> \o GenLetters(MaxGenLen)
    \o <<60, 47, 98, 62>>

LongGenTexts ==
  { GenMarkup,
    GenLetters(MAX_AI_LENGTH),
    GenLetters(MAX_AI_LENGTH + 1),
    GenLetters(MaxSentence) \o SentenceSep \o GenLetters(MaxSentence) }

NextText ==
  \/ \E s \in Slots : Call(s, MaxTextCalls, {"A"}, LongMessages, PipelineIds)
  \/ \E s \in Slots : FindSession(s, {"ok"})
  \/ \E s \in Slots : InsertSession(s, {"ok"})
  \/ \E s \in Slots : SaveUserMessage(s, {"ok"})
  \/ \E s \in Slots : Generate(s, {}, LongGenTexts)
  \/ \E s \in Slots : SaveAiMessage(s, DbOutcomes)

SpecText == InitRate /\ [][NextText]_vars

\* Retrieval: every way the corpora and the embedder can load; one call of
\* get_bible_verses on its own with any query, or else chat requests (when the
\* indexes hold at most MaxChatVerses vectors) in both languages with a
\* generation service that answers and a store that works.
MaxKbCalls == 1
MaxChatVerses == 1
Languages == {"english", "hindi"}

KbCallIds ==
  IF /\ ~retrieval.called
     /\ kb.english_index.ntotal <= MaxChatVerses
     /\ kb.hindi_index.ntotal <= MaxChatVerses
  THEN PipelineIds ELSE {}

NextRetrieval ==
  \/ Retrieve(Languages, RetrievalFailures)
  \/ \E s \in Slots : Call(s, MaxKbCalls, {"A"}, {MsgEnglish, MsgHindi}, KbCallIds)
  \/ \E s \in Slots : FindSession(s, {"ok"})
  \/ \E s \in Slots : InsertSession(s, {"ok"})
  \/ \E s \in Slots : SaveUserMessage(s, {"ok"})
  \/ \E s \in Slots : Generate(s, {}, RateGenTexts)
  \/ \E s \in Slots : SaveAiMessage(s, {"ok"})

InitRetrieval ==
  /\ kb \in KbConfigs
  /\ retrieval = NoRetrieval
  /\ history = NoHistory
  /\ created = <<>>
  /\ stream = NoStream
  /\ ws = NoSocket
  /\ now = 0
  /\ rate_limit_storage = [c \in ClientIds |-> <<>>]
  /\ gemini_key = TRUE
  /\ chat_sessions = <<>>
  /\ chat_messages = <<>>
  /\ pc = [s \in Slots |-> "idle"]
  /\ req = [s \in Slots |-> NoReq]
  /\ admitted = <<>>
  /\ rejected = {}
  /\ reply = NoReply

SpecRetrieval == InitRetrieval /\ [][NextRetrieval]_vars

\* History: a store that already holds none, 199 or 200 messages of one
\* session (pairs of a user message and its reply, the last two requests
\* interleaved so that the last reply written carries the earlier timestamp),
\* chat requests for that session or another one, and GET /api/chat/{id}
\* at any moment.
MaxHistoryCalls == 1

StoredUserText == validate_and_prepare_message(MsgEnglish, "user")
StoredAiText == GenLetters(MIN_AI_RESPONSE_LENGTH)

\* n messages written before the behaviour starts, timestamps below 0
Prefill(n) ==
  [i \in 1..n |->
     IF i <= n - 4
     THEN ChatMessage(SessionA, IF i % 2 = 1 THEN StoredUserText ELSE StoredAiText,
                      IF i % 2 = 1 THEN "user" ELSE "ai", "english", <<>>, i - n - 1)
     ELSE IF i <= n - 2
     THEN ChatMessage(SessionA, StoredUserText, "user", "english", <<>>, i - n - 1)
     ELSE IF i = n - 1
     THEN ChatMessage(SessionA, StoredAiText, "ai", "english", <<>>, 0 - 1)
     ELSE ChatMessage(SessionA, StoredAiText, "ai", "english", <<>>, 0 - 2)]
PrefillSizes == {0, HISTORY_LIMIT - 1, HISTORY_LIMIT}

NextHistory ==
  \/ \E s \in Slots : Call(s, MaxHistoryCalls, {"A"}, {MsgEnglish}, WellFormedIds)
  \/ \E s \in Slots : FindSession(s, {"ok"})
  \/ \E s \in Slots : InsertSession(s, {"ok"})
  \/ \E s \in Slots : SaveUserMessage(s, {"ok"})
  \/ \E s \in Slots : Generate(s, {}, RateGenTexts)
  \/ \E s \in Slots : SaveAiMessage(s, {"ok"})
  \/ GetHistory(WellFormedIds \cup MalformedIds, DbOutcomes)
  \/ Tick(MaxPipeTime, TickSteps)

InitHistory ==
  /\ kb = DefaultKb
  /\ retrieval = NoRetrieval
  /\ history = NoHistory
  /\ created = <<>>
  /\ stream = NoStream
  /\ ws = NoSocket
  /\ now = 0
  /\ rate_limit_storage = [c \in ClientIds |-> <<>>]
  /\ gemini_key = TRUE
  /\ \E n \in PrefillSizes :
       /\ chat_messages = Prefill(n)
       /\ chat_sessions = IF n = 0 THEN <<>> ELSE <<ChatSession(SessionA, "english", 0 - n)>>
  /\ pc = [s \in Slots |-> "idle"]
  /\ req = [s \in Slots |-> NoReq]
  /\ admitted = <<>>
  /\ rejected = {}
  /\ reply = NoReply

SpecHistory == InitHistory /\ [][NextHistory]_vars

\* A generation service that never responds: chat.send_message neither
\* returns nor raises, so only the timeout of wait_for ends the wait.  The
\* store operations return, with a result or an exception.  The event loop
\* resumes every coroutine whose await has completed, and the clock advances;
\* it is followed only while a request waits on the service, in steps of
\* half the timeout or the whole of it.  The weak fairness of Generate is
\* written with its enabling condition: with a silent service the action is
\* enabled exactly when the request is at the await and its wait has timed out.
MaxLiveCalls == 1
LiveTime == 2 * GEN_TIMEOUT * MaxLiveCalls
LiveSteps == {GEN_TIMEOUT \div 2, GEN_TIMEOUT}
Waiting(s) == pc[s] = "generate" /\ ~TimedOut(req[s])

TickWaiting ==
  /\ \E s \in Slots : Waiting(s)
  /\ Tick(LiveTime, LiveSteps)

NextLive ==
  \/ \E s \in Slots : Call(s, MaxLiveCalls, {"A"}, Messages, PipelineIds)
  \/ \E s \in Slots : FindSession(s, DbOutcomes)
  \/ \E s \in Slots : InsertSession(s, DbOutcomes)
  \/ \E s \in Slots : SaveUserMessage(s, DbOutcomes)
  \/ \E s \in Slots : Generate(s, {}, {})
  \/ \E s \in Slots : SaveAiMessage(s, DbOutcomes)
  \/ TickWaiting

Fairness ==
  /\ \A s \in Slots :
       /\ WF_vars(FindSession(s, DbOutcomes))
       /\ WF_vars(InsertSession(s, DbOutcomes))
       /\ WF_vars(SaveUserMessage(s, DbOutcomes))
       /\ \/ []<>~(pc[s] = "generate" /\ TimedOut(req[s]))
          \/ []<><<Generate(s, {}, {})>>_vars
       /\ WF_vars(SaveAiMessage(s, DbOutcomes))
  /\ WF_vars(TickWaiting)

SpecLive == Init /\ [][NextLive]_vars /\ Fairness

\* Concurrent requests of one client for the same session or for two
\* sessions, in english or hindi: a store whose lookups work and whose message
\* inserts may fail, a generation service that answers or times out.
MaxConcurrentCalls == 2

NextConcurrent ==
  \/ \E s \in Slots : Call(s, MaxConcurrentCalls, {"A"}, {MsgEnglish, MsgHindi}, WellFormedIds)
  \/ \E s \in Slots : FindSession(s, {"ok"})
  \/ \E s \in Slots : InsertSession(s, {"ok"})
  \/ \E s \in Slots : SaveUserMessage(s, DbOutcomes)
  \/ \E s \in Slots : Generate(s, {}, RateGenTexts)
  \/ \E s \in Slots : SaveAiMessage(s, DbOutcomes)
  \/ Tick(MaxPipeTime, TickSteps)

InitConcurrent ==
  Init /\ gemini_key

SpecConcurrent == InitConcurrent /\ [][NextConcurrent]_vars

\* Texts around the Devanagari block: letters only, Devanagari only, letters
\* followed by one character just below the block (U+08FF), at its first
\* (U+0900) and last (U+097F) position and just above it (U+0980), and a
\* Devanagari character between blanks and markup; a store that works, a
\* generation service that answers.
MaxLanguageCalls == 1
Letters == <<104, 101, 108, 112, 32, 109, 101>>
LanguageMessages ==
  {MsgEnglish, MsgHindi, MsgShort}
    \cup {Letters \o <<SPACE, c>> : c \in {2303, 2304, 2431, 2432}}
    \cup {<<SPACE, 60, 2325, 62, SPACE>> \o Letters}

NextLanguage ==
  \/ \E s \in Slots : Call(s, MaxLanguageCalls, {"A"}, LanguageMessages, PipelineIds)
  \/ \E s \in Slots : FindSession(s, {"ok"})
  \/ \E s \in Slots : InsertSession(s, {"ok"})
  \/ \E s \in Slots : SaveUserMessage(s, {"ok"})
  \/ \E s \in Slots : Generate(s, {}, RateGenTexts)
  \/ \E s \in Slots : SaveAiMessage(s, {"ok"})

SpecLanguage == Init /\ [][NextLanguage]_vars

\* Sessions made by POST /api/session and then used: chat requests and history
\* requests name the ids the earlier replies returned; the insert of the
\* session may fail, the rest of the store works.
MaxSessionCalls == 1
ReturnedIds == {created[i].session_id : i \in {j \in 1..Len(created) : created[j].status = 200}}

NextSession ==
  \/ CreateSession(MaxCreateCalls, DbOutcomes)
  \/ \E s \in Slots : Call(s, MaxSessionCalls, {"A"}, {MsgEnglish},
                            ReturnedIds \cup PipelineIds \cup MalformedIds)
  \/ \E s \in Slots : FindSession(s, {"ok"})
  \/ \E s \in Slots : InsertSession(s, {"ok"})
  \/ \E s \in Slots : SaveUserMessage(s, {"ok"})
  \/ \E s \in Slots : Generate(s, {}, RateGenTexts)
  \/ \E s \in Slots : SaveAiMessage(s, {"ok"})
  \/ GetHistory(ReturnedIds \cup MalformedIds, {"ok"})

InitSession ==
  Init /\ gemini_key /\ chat_sessions = <<>>

SpecSession == InitSession /\ [][NextSession]_vars

\* A healthy store: every store operation succeeds; every message and every
\* session id value of the request body, a generation service that answers,
\* fails or times out.
NextHealthy ==
  \/ \E s \in Slots : Call(s, MaxCalls, {"A"}, Messages, SessionIdInputs)
  \/ \E s \in Slots : FindSession(s, {"ok"})
  \/ \E s \in Slots : InsertSession(s, {"ok"})
  \/ \E s \in Slots : SaveUserMessage(s, {"ok"})
  \/ \E s \in Slots : Generate(s, GenFailures, GenTexts)
  \/ \E s \in Slots : SaveAiMessage(s, {"ok"})
  \/ Tick(MaxPipeTime, TickSteps)

SpecHealthy == Init /\ [][NextHealthy]_vars

\* Markup characters next to blanks, in the inbound and in the generated
\* text: "help < me", "< help me", "help me >", "he<l>p me", a tab and a
\* line feed between words; generated texts with "{" between blanks and "}"
\* at the end; a store that works.
MaxMarkupCalls == 1
Word == <<104, 101, 108, 112>>
MarkupMessages ==
  { Word \o <<SPACE, 60, SPACE>> \o <<109, 101>>,
    <<60, SPACE>> \o Word \o <<SPACE, 109, 101>>,
    Word \o <<SPACE, 109, 101, SPACE, 62>>,
    <<104, 101, 60, 108, 62, 112, SPACE, 109, 101>>,
    Word \o <<9, 10>> \o <<109, 101>>,
    MsgEnglish }
MarkupGenTexts ==
  { GenLetters(MaxGenLen) \o <<SPACE, 123, SPACE>> \o GenLetters(MaxGenLen),
    GenLetters(MaxGenLen) \o <<SPACE, 125>>,
    GenMarkup }

NextMarkup ==
  \/ \E s \in Slots : Call(s, MaxMarkupCalls, {"A"}, MarkupMessages, PipelineIds)
  \/ \E s \in Slots : FindSession(s, {"ok"})
  \/ \E s \in Slots : InsertSession(s, {"ok"})
  \/ \E s \in Slots : SaveUserMessage(s, {"ok"})
  \/ \E s \in Slots : Generate(s, {}, MarkupGenTexts)
  \/ \E s \in Slots : SaveAiMessage(s, {"ok"})

SpecMarkup == InitRate /\ [][NextMarkup]_vars

\* Generated texts around the outbound limit, made of sentences of letters:
\* one sentence that with its period has exactly 2500 characters, followed by
\* more; two sentences that with their periods have 2500 and 2499 characters,
\* followed by more; two short sentences; 2500 letters; 2501 letters; a store
\* whose last insert may fail.
MaxTruncateCalls == 1
Sentences(lens) ==
  LET F[i \in 0..Len(lens)] ==
        IF i = 0 THEN <<>>
        ELSE F[i-1] \o (IF i = 1 THEN <<>> ELSE SentenceSep) \o GenLetters(lens[i])
  IN  F[Len(lens)]
BoundaryGenTexts ==
  { Sentences(<<MAX_AI_LENGTH - 1, MaxGenLen>>),
    Sentences(<<1000, MAX_AI_LENGTH - 1003, MaxGenLen>>),
    Sentences(<<1000, MAX_AI_LENGTH - 1004, MaxGenLen>>),
    Sentences(<<MaxGenLen, MaxGenLen>>),
    GenLetters(MAX_AI_LENGTH),
    GenLetters(MAX_AI_LENGTH + 1) }

NextTruncate ==
  \/ \E s \in Slots : Call(s, MaxTruncateCalls, {"A"}, {MsgEnglish, MsgHindi}, PipelineIds)
  \/ \E s \in Slots : FindSession(s, {"ok"})
  \/ \E s \in Slots : InsertSession(s, {"ok"})
  \/ \E s \in Slots : SaveUserMessage(s, {"ok"})
  \/ \E s \in Slots : Generate(s, {}, BoundaryGenTexts)
  \/ \E s \in Slots : SaveAiMessage(s, DbOutcomes)

SpecTruncate == InitRate /\ [][NextTruncate]_vars

\* The two surfaces that reach the generation service: POST /api/chat and
\* one connection to /ws/{session_id}, with a store that works.
\* Frames received on the connection.
MaxFrames == 1
MaxSurfaceCalls == 1
SurfaceMessages == {MsgShort, MsgEnglish, MsgHindi}
SurfaceIds == PipelineIds \cup MalformedIds

NextSurfaces ==
  \/ \E s \in Slots : Call(s, MaxSurfaceCalls, {"A"}, SurfaceMessages, SurfaceIds)
  \/ \E s \in Slots : FindSession(s, {"ok"})
  \/ \E s \in Slots : InsertSession(s, {"ok"})
  \/ \E s \in Slots : SaveUserMessage(s, {"ok"})
  \/ \E s \in Slots : Generate(s, {}, RateGenTexts)
  \/ \E s \in Slots : SaveAiMessage(s, {"ok"})
  \/ WsConnect({"A"}, SurfaceIds)
  \/ WsReceive(MaxFrames, SurfaceMessages)
  \/ WsGenerate({}, RateGenTexts)
  \/ WsDisconnect
  \/ Tick(MaxPipeTime, TickSteps)

SpecSurfaces == Init /\ [][NextSurfaces]_vars

\* One event stream beside one chat request of session A, with a working
\* generation service; the stream's find may fail.
\* Turns of the stream's loop.
MaxPolls == 3
MaxStreamCalls == 1
MaxStreamTime == 10

NextStream ==
  \/ \E s \in Slots : Call(s, MaxStreamCalls, {"A"}, {MsgEnglish}, PipelineIds)
  \/ \E s \in Slots : FindSession(s, {"ok"})
  \/ \E s \in Slots : InsertSession(s, {"ok"})
  \/ \E s \in Slots : SaveUserMessage(s, {"ok"})
  \/ \E s \in Slots : Generate(s, {}, RateGenTexts)
  \/ \E s \in Slots : SaveAiMessage(s, {"ok"})
  \/ StreamOpen(WellFormedIds)
  \/ StreamPoll(MaxPolls, DbOutcomes)
  \/ StreamClose
  \/ Tick(MaxStreamTime, {POLL_INTERVAL})

SpecStream == InitRate /\ [][NextStream]_vars

\* ------------------------------------------------------------------- claims
\* admitted calls of a client whose timestamp t satisfies 0 <= at - t < window
AdmittedIn(client_id, at) ==
  {i \in 1..Len(admitted) :
     /\ ClientIdOf(admitted[i].caller) = client_id
     /\ admitted[i].at <= at
     /\ at - admitted[i].at < RATE_LIMIT_WINDOW}

\* a step of Call: the clock stands still and no suspended request moves
CallStep == now' = now /\ \A t \in Slots : pc'[t] = pc[t] \/ pc[t] = "idle"
\* a step of Call that answers at once (429 or 400)
CallAnswered == CallStep /\ pc' = pc

\* C1: for every client, at every instant, at most RATE_LIMIT_REQUESTS admitted
\* calls have a timestamp less than RATE_LIMIT_WINDOW seconds old, and a call
\* answered 429 did not run the handler.
C1_RateLimitSafety ==
  /\ \A c \in ClientIds : Cardinality(AdmittedIn(c, now)) <= RATE_LIMIT_REQUESTS
  /\ reply.status = 429 => reply.gen = "none" /\ ~reply.persisted
C1_Witness ==
  /\ reply.status = 429
  /\ \E c \in ClientIds : Cardinality(AdmittedIn(c, now)) = RATE_LIMIT_REQUESTS

\* C2: a call is rejected while RATE_LIMIT_REQUESTS admitted calls are inside
\* the window and admitted as soon as fewer are, whatever was rejected before.
C2_Resumption ==
  [][CallStep =>
       \A c \in ClientIds :
         /\ Cardinality(AdmittedIn(c, now)) < RATE_LIMIT_REQUESTS
              => Len(admitted') = Len(admitted) + 1
         /\ Cardinality(AdmittedIn(c, now)) >= RATE_LIMIT_REQUESTS
              => admitted' = admitted /\ reply'.status = 429]_vars
C2_Witness ==
  /\ Len(admitted) > RATE_LIMIT_REQUESTS
  /\ \E r \in rejected :
       /\ \A i \in 1..RATE_LIMIT_REQUESTS : admitted[i].at <= r.at
       /\ r.at < admitted[RATE_LIMIT_REQUESTS + 1].at

\* C3: a call that finds RATE_LIMIT_REQUESTS entries in the pruned window is
\* rejected and leaves exactly the pruned entries; any other call appends
\* exactly one entry, its own time, to the pruned entries.
C3_RejectedNotRecorded ==
  [][CallStep =>
       \A c \in ClientIds :
         LET pruned == SelectSeq(rate_limit_storage[c],
                                 LAMBDA t : now - t < RATE_LIMIT_WINDOW)
         IN  IF Len(pruned) >= RATE_LIMIT_REQUESTS
             THEN rate_limit_storage'[c] = pruned /\ reply'.status = 429
                  /\ admitted' = admitted
             ELSE rate_limit_storage'[c] = pruned \o <<now>>
                  /\ Len(admitted') = Len(admitted) + 1]_vars
C3_Witness ==
  /\ reply.status = 429
  /\ \E c \in ClientIds : Len(rate_limit_storage[c]) = RATE_LIMIT_REQUESTS
  /\ rejected # {}

\* C4: with requests suspended at their awaits while others are admitted, the
\* window of a client is exactly the admitted timestamps that were inside the
\* window at its last check: none lost, none counted twice.
LastCheck(c) ==
  MaxOf({0} \cup {admitted[i].at : i \in {j \in 1..Len(admitted) : ClientIdOf(admitted[j].caller) = c}}
            \cup {r.at : r \in {q \in rejected : ClientIdOf(q.caller) = c}})
AdmittedTimes(c) ==
  LET mine == SelectSeq(admitted, LAMBDA a : ClientIdOf(a.caller) = c)
  IN  [i \in 1..Len(mine) |-> mine[i].at]
C4_AtomicWindow ==
  \A c \in ClientIds :
    rate_limit_storage[c] =
      SelectSeq(AdmittedTimes(c), LAMBDA t : LastCheck(c) - t < RATE_LIMIT_WINDOW)
C4_Witness ==
  /\ \E s \in Slots : pc[s] # "idle"
  /\ \E c \in ClientIds : Len(rate_limit_storage[c]) = RATE_LIMIT_REQUESTS
  /\ \E r \in rejected : r.at = now

\* C5: a client is rejected only on account of its own admitted requests:
\* every 429 was preceded by RATE_LIMIT_REQUESTS admitted calls of the same
\* caller inside the window.
C5_PerClientWindow ==
  \A r \in rejected :
    Cardinality({i \in 1..Len(admitted) :
                   /\ admitted[i].caller = r.caller
                   /\ admitted[i].at <= r.at
                   /\ r.at - admitted[i].at < RATE_LIMIT_WINDOW}) >= RATE_LIMIT_REQUESTS

\* C6 as stated: a call answered 400 "Invalid session ID" adds no timestamp
\* to the window.
InvalidSessionAnswered ==
  /\ CallAnswered
  /\ reply'.status = 400 /\ reply'.detail = "Invalid session ID"
C6_ValidationBeforeAdmission ==
  [][InvalidSessionAnswered =>
       /\ admitted' = admitted
       /\ \A c \in ClientIds :
            Len(rate_limit_storage'[c]) <= Len(rate_limit_storage[c])]_vars
\* C6 amended: admission is charged first; the call answered 400 "Invalid
\* session ID" has been admitted and its timestamp is in the window.
C6_AdmissionBeforeValidation ==
  [][InvalidSessionAnswered =>
       /\ Len(admitted') = Len(admitted) + 1
       /\ LET c == ClientIdOf(reply'.caller)
          IN  rate_limit_storage'[c] =
                SelectSeq(rate_limit_storage[c], LAMBDA t : now - t < RATE_LIMIT_WINDOW)
                \o <<now>>]_vars
C6_Witness ==
  /\ reply.status = 400 /\ reply.detail = "Invalid session ID"
  /\ Len(admitted) >= 1
  /\ \E c \in ClientIds : Len(rate_limit_storage[c]) >= 1

IsDigit(c) == 48 <= c /\ c <= 57
\* the text holds a chapter:verse reference, as a scripture quotation does
HasVerseReference(text) ==
  \E i \in 1..(Len(text) - 2) : IsDigit(text[i]) /\ text[i+1] = 58 /\ IsDigit(text[i+2])

Answered == reply.status = 200

SubstitutedFallback ==
  \/ reply.gen \in {"timeout", "exception"}
  \/ reply.gen = "text" /\ Len(Strip(reply.generated)) < 10

C9_NoGenerationError ==
  reply.status # 0 /\ reply.persisted =>
    /\ Answered
    /\ Len(reply.body.response) > 0
    /\ Strip(reply.body.response) # <<>>
C9_Witness ==
  /\ Answered /\ reply.persisted
  /\ reply.gen = "exception" /\ reply.body.language = "hindi"
  /\ Len(reply.body.response) > 0

\* C10 as stated: every generation failure other than timeout and too-short
\* text, missing credentials included, is answered with fallback C, and
\* fallback C holds a scripture quotation in both languages.
C10_FallbackCEverywhere ==
  Answered /\ reply.gen \in {"exception", "no_key"} =>
    /\ reply.body.response = fallback_responses(reply.body.language)
    /\ HasVerseReference(reply.body.response)
\* C10 amended: a generation call that raises is answered with fallback C of
\* the request language; missing credentials are answered with a text of
\* their own; only the English fallback C holds a scripture quotation.
C10_FallbackCByLanguage ==
  Answered =>
    /\ reply.gen = "exception" /\ reply.body.language = "english"
         => reply.body.response = FallbackC_english
            /\ HasVerseReference(reply.body.response)
    /\ reply.gen = "exception" /\ reply.body.language = "hindi"
         => reply.body.response = FallbackC_hindi
            /\ ~HasVerseReference(reply.body.response)
    /\ reply.gen = "no_key"
         => reply.body.response = NoKeyText
            /\ ~HasVerseReference(reply.body.response)
            /\ reply.body.response \notin {FallbackC_english, FallbackC_hindi}
C10_Witness ==
  /\ Answered
  /\ reply.gen = "exception" /\ reply.body.language = "hindi"
  /\ reply.body.response = FallbackC_hindi

\* C11: get_bible_verses is called only when the generated text is used: a
\* reply made of a fallback text (timeout, too-short text, exception, missing
\* key, too-short question) was built without retrieval and has no citations;
\* citations are non-empty only next to the generated text.
C11_RetrievalOnlyOnSuccess ==
  /\ reply.status \notin {0, 200} => ~reply.retrieved
  /\ Answered =>
       /\ (SubstitutedFallback \/ reply.gen \in {"no_key", "question_too_short", "none"})
            => ~reply.retrieved /\ reply.body.cited_verses = <<>>
       /\ reply.body.cited_verses # <<>>
            => /\ reply.retrieved /\ reply.gen = "text"
               /\ reply.body.response = reply.generated
       /\ reply.retrieved => reply.gen = "text" /\ ~SubstitutedFallback
C11_Witness ==
  /\ Answered /\ reply.gen = "exception"
  /\ ~reply.retrieved /\ reply.body.cited_verses = <<>>
  /\ reply.body.response = FallbackC_english

\* C12: when the insert of the user message fails, the request ends at once
\* with a 500: generation is not invoked for it and, the request being over,
\* no assistant message of it is ever appended.
C12_InboundFailureFatal ==
  /\ [](reply.status = 500 /\ reply.detail = "Error saving message"
          => reply.gen = "none" /\ ~reply.persisted /\ ~reply.retrieved)
  /\ [][\A s \in Slots :
          pc[s] = "save_user" /\ pc'[s] # "save_user" /\ chat_messages' = chat_messages
            => /\ pc'[s] = "idle" /\ req'[s] = NoReq
               /\ reply'.status = 500 /\ reply'.detail = "Error saving message"
               /\ reply'.gen = "none" /\ ~reply'.persisted]_vars
C12_Witness ==
  /\ reply.status = 500 /\ reply.detail = "Error saving message"
  /\ reply.user_message # <<>> /\ gemini_key
  /\ \A i \in 1..Len(chat_messages) : chat_messages[i].session_id # reply.session_id
  /\ \A s \in Slots : pc[s] = "idle"

\* C13: when the insert of the assistant message fails, the request is
\* answered 200 with the text, citations, session id and language it had
\* computed, the same as when the insert succeeds.
C13_OutboundFailureNonFatal ==
  [][\A s \in Slots :
       pc[s] = "save_ai" /\ pc'[s] # "save_ai"
         => /\ pc'[s] = "idle"
            /\ reply'.status = 200
            /\ reply'.body.response = req[s].biblical_response.response
            /\ reply'.body.cited_verses = req[s].biblical_response.cited_verses
            /\ reply'.body.session_id = req[s].session_id
            /\ reply'.body.language = req[s].language
            /\ \/ chat_messages' = chat_messages
               \/ /\ Len(chat_messages') = Len(chat_messages) + 1
                  /\ chat_messages'[Len(chat_messages')].sender = "ai"]_vars
C13_Witness ==
  /\ Answered /\ reply.persisted /\ reply.gen = "text"
  /\ reply.body.response = reply.generated
  /\ \A i \in 1..Len(chat_messages) : chat_messages[i].sender # "ai"
  /\ \E i \in 1..Len(chat_messages) : chat_messages[i].sender = "user"

\* C15: a chat request answered 400 (empty or whitespace-only message,
\* malformed or missing session id) has inserted no session record and no
\* message and has not invoked the generation service: the answering step
\* leaves the store as it was, and the store never holds a record under a
\* session id that is not well-formed nor a blank user message.
C15_RejectionBeforeSideEffect ==
  /\ [](/\ reply.status = 400
            => reply.gen = "none" /\ ~reply.persisted /\ ~reply.retrieved
        /\ \A i \in 1..Len(chat_sessions) : chat_sessions[i].id \in WellFormedIds
        /\ \A i \in 1..Len(chat_messages) :
             /\ chat_messages[i].session_id \in WellFormedIds
             /\ Strip(chat_messages[i].message) # <<>>)
  /\ [][CallStep /\ reply' # reply /\ reply'.status = 400
          => /\ chat_sessions' = chat_sessions /\ chat_messages' = chat_messages
             /\ pc' = pc
             /\ \/ Strip(reply'.raw_message) = <<>>
                \/ reply'.session_id \notin WellFormedIds]_vars
C15_Witness ==
  /\ reply.status = 400 /\ reply.detail = "Invalid session ID"
  /\ reply.session_id \in MalformedIds /\ reply.raw_message = MsgEnglish
  /\ chat_messages = <<>>
  /\ \A i \in 1..Len(chat_sessions) : chat_sessions[i].id # reply.session_id

\* C17 (as stated): a chat request whose session id is not a well-formed UUID
\* and that got past the rate limiter and the empty-message check is answered
\* 400 "Invalid session ID".
C17_MalformedIdRejected400 ==
  /\ reply.status \notin {0, 429}
  /\ Strip(reply.raw_message) # <<>>
  /\ reply.session_id \notin WellFormedIds
  => reply.status = 400 /\ reply.detail = "Invalid session ID"

\* C16 (as stated): a chat request with a well-formed session id whose
\* normalized text is empty or shorter than 3 characters is rejected with the
\* empty-input 400 (unless a lookup in the store failed first): nothing of it
\* is persisted and the generation step is not entered.
C16_ShortInputRejected ==
  /\ reply.status \notin {0, 429}
  /\ reply.detail # "Internal server error occurred"
  /\ reply.session_id \in WellFormedIds
  /\ Len(validate_and_prepare_message(Strip(reply.raw_message), "user")) < MIN_QUESTION_LENGTH
  => /\ reply.status = 400 /\ reply.detail = "Message cannot be empty"
     /\ ~reply.persisted /\ reply.gen = "none"

\* messages of a session among the first n stored, by sender
StoredBefore(session_id, sender, n) ==
  {i \in 1..n : /\ chat_messages[i].session_id = session_id
                /\ chat_messages[i].sender = sender}

\* C14: the user message of a request is appended before its generation step
\* starts and before its assistant message is appended: a request enters
\* generation only by the step that appends its user message, an assistant
\* message is appended only by a request whose user message is already stored
\* with a timestamp not later than the assistant's, and in every store state
\* each assistant message of a session can be paired with a distinct user
\* message of that session inserted before it and not timestamped after it.
C14_UserBeforeAssistant ==
  /\ [](\A j \in 1..Len(chat_messages) :
          chat_messages[j].sender = "ai" =>
            LET m == chat_messages[j] IN
            /\ Cardinality(StoredBefore(m.session_id, "user", j - 1))
                 >= Cardinality(StoredBefore(m.session_id, "ai", j))
            /\ Cardinality({i \in StoredBefore(m.session_id, "user", j - 1) :
                              chat_messages[i].timestamp <= m.timestamp})
                 >= Cardinality({i \in StoredBefore(m.session_id, "ai", j) :
                              chat_messages[i].timestamp <= m.timestamp}))
  /\ [][\A s \in Slots :
          /\ pc'[s] \in {"generate", "save_ai"} /\ pc[s] \notin {"generate", "save_ai"}
               => /\ pc[s] = "save_user"
                  /\ chat_messages' = Append(chat_messages,
                       ChatMessage(req[s].session_id, req[s].user_message, "user",
                                   req[s].language, <<>>, req[s].msg_time))
          /\ pc[s] = "save_ai" /\ pc'[s] # "save_ai" /\ chat_messages' # chat_messages
               => /\ req[s].persisted
                  /\ chat_messages'[Len(chat_messages')].sender = "ai"
                  /\ \E i \in 1..Len(chat_messages) :
                       /\ chat_messages[i].sender = "user"
                       /\ chat_messages[i].session_id = req[s].session_id
                       /\ chat_messages[i].message = req[s].user_message
                       /\ chat_messages[i].timestamp
                            <= chat_messages'[Len(chat_messages')].timestamp]_vars
\* two requests of one session interleaved: user, user, assistant, assistant
C14_Witness ==
  /\ Len(chat_messages) = 4
  /\ chat_messages[1].sender = "user" /\ chat_messages[2].sender = "user"
  /\ chat_messages[3].sender = "ai" /\ chat_messages[4].sender = "ai"
  /\ chat_messages[2].session_id = chat_messages[1].session_id
  /\ chat_messages[3].session_id = chat_messages[1].session_id
  /\ chat_messages[4].session_id = chat_messages[1].session_id
  /\ chat_messages[4].timestamp < chat_messages[3].timestamp

\* C18 (as stated): every stored user message has at most 1000 characters and
\* every stored assistant message at most 2500.
C18_StoredLengthBound ==
  \A i \in 1..Len(chat_messages) :
    Len(chat_messages[i].message) <=
      (IF chat_messages[i].sender = "user" THEN MAX_USER_LENGTH ELSE MAX_AI_LENGTH)

\* C19 (as stated): an answered request whose inbound text has more than 1000
\* characters has a normalized inbound text of 1000 characters, and one whose
\* inbound text has exactly 1000 characters has it unchanged.
C19_TruncatedToLimit ==
  Answered =>
    LET inbound == CollapseWhitespace(Strip(reply.raw_message)) IN
    /\ Len(inbound) > MAX_USER_LENGTH => Len(reply.user_message) = MAX_USER_LENGTH
    /\ Len(inbound) = MAX_USER_LENGTH /\ inbound = reply.raw_message
         => reply.user_message = reply.raw_message

\* C20 (as stated): the text returned to the caller has at most 2500
\* characters and none of < > { }, and the step that stores the assistant
\* message of a request stores the text that request returns.
C20_ReturnedIsNormalized ==
  /\ [](Answered =>
          /\ Len(reply.body.response) <= MAX_AI_LENGTH
          /\ \A i \in 1..Len(reply.body.response) : reply.body.response[i] \notin UnsafeChars)
  /\ [][\A s \in Slots :
          pc[s] = "save_ai" /\ pc'[s] # "save_ai" /\ chat_messages' # chat_messages
            => chat_messages'[Len(chat_messages')].message = reply'.body.response]_vars

\* the hits of the last direct retrieval that lie strictly below the threshold
HitsBelowThreshold ==
  SelectSeq(retrieval.hits, LAMBDA h : h.distance < SIMILARITY_THRESHOLD)

\* C22: no citation returned by get_bible_verses, for any query and either
\* language, has a score greater than or equal to the threshold 10; the
\* citations are at most the neighbours strictly below it, so a neighbour at
\* exactly 10 is left out.  The same holds for the citations of a chat reply.
C22_ScoreBelowThreshold ==
  /\ retrieval.called =>
       /\ \A j \in 1..Len(retrieval.result.verses) :
            retrieval.result.verses[j].score < SIMILARITY_THRESHOLD
       /\ Len(retrieval.result.verses) <= Len(HitsBelowThreshold)
  /\ Answered =>
       \A j \in 1..Len(reply.body.cited_verses) :
         reply.body.cited_verses[j].score < SIMILARITY_THRESHOLD
C22_Witness ==
  /\ retrieval.called /\ retrieval.failure = "none"
  /\ \E j \in 1..TOP_K : retrieval.hits[j].distance = SIMILARITY_THRESHOLD
  /\ retrieval.result.verses # <<>>
  /\ Len(retrieval.result.verses) = Len(HitsBelowThreshold)
  /\ Len(retrieval.result.verses) < TOP_K

\* C23: get_bible_verses returns at most 5 citations, of pairwise distinct
\* verses, in non-decreasing score order: they are the neighbours below the
\* threshold in the order of the search result.
C23_RankedAndBounded ==
  retrieval.called =>
    LET verses == retrieval.result.verses IN
    /\ Len(verses) <= TOP_K
    /\ \A i, j \in 1..Len(verses) :
         /\ i < j => verses[i].score <= verses[j].score
         /\ i # j => verses[i].reference # verses[j].reference
    /\ \A i, j \in 1..TOP_K :
         /\ i < j => retrieval.hits[i].distance <= retrieval.hits[j].distance
         /\ i # j /\ retrieval.hits[i].label >= 0
              => retrieval.hits[i].label # retrieval.hits[j].label
    /\ verses # <<>> =>
         /\ Len(verses) = Len(HitsBelowThreshold)
         /\ \A j \in 1..Len(verses) : verses[j].score = HitsBelowThreshold[j].distance
C23_Witness ==
  /\ retrieval.called
  /\ Len(retrieval.distances) > TOP_K
  /\ Len(retrieval.result.verses) = TOP_K
  /\ retrieval.result.verses[1].score < retrieval.result.verses[TOP_K].score
  /\ retrieval.distances[1] > retrieval.distances[2]

\* the index of a language is usable: it was built and the embedder is loaded
IndexAvailable(language) ==
  /\ kb.model
  /\ IF language = "hindi" THEN kb.hindi_index.built ELSE kb.english_index.built

\* C24: get_bible_verses never lets an exception out, and returns no citation
\* when the embedder is missing, the language's index was not built, or
\* embedding or searching raises; a chat request that reached retrieval is
\* answered 200 with the generated text, with no citations when the index of
\* its language is not available.
C24_RetrievalBestEffort ==
  /\ retrieval.called =>
       /\ ~retrieval.result.raised
       /\ ~IndexAvailable(retrieval.language) \/ retrieval.failure # "none"
            => retrieval.result.verses = <<>>
  /\ reply.status # 0 /\ reply.retrieved =>
       /\ Answered /\ reply.gen = "text"
       /\ reply.body.response = reply.generated
       /\ ~IndexAvailable(reply.language) => reply.body.cited_verses = <<>>
C24_Witness ==
  /\ retrieval.called /\ retrieval.failure = "search"
  /\ IndexAvailable(retrieval.language)
  /\ HitsBelowThreshold # <<>>
  /\ retrieval.result.verses = <<>> /\ ~retrieval.result.raised

\* citations that can be made of the verses of a language's corpus file
CorpusVerses(language) ==
  IF language = "hindi" THEN HindiVerses(MaxVerses) ELSE EnglishVerses(MaxVerses)
FromCorpus(citation, language) ==
  \E p \in 1..MaxVerses :
    /\ citation.text = CorpusVerses(language)[p].text
    /\ citation.reference = Citation(CorpusVerses(language)[p], 0).reference

\* C25: every citation get_bible_verses returns for language L is a verse of
\* L's corpus, and without an index for L it returns none, whatever the other
\* language's index holds; the same for the citations of a chat reply.
C25_LanguageIsolation ==
  /\ retrieval.called =>
       /\ \A j \in 1..Len(retrieval.result.verses) :
            FromCorpus(retrieval.result.verses[j], retrieval.language)
       /\ ~IndexAvailable(retrieval.language) => retrieval.result.verses = <<>>
  /\ Answered =>
       /\ \A j \in 1..Len(reply.body.cited_verses) :
            FromCorpus(reply.body.cited_verses[j], reply.language)
       /\ ~IndexAvailable(reply.language) => reply.body.cited_verses = <<>>
C25_Witness ==
  /\ retrieval.called /\ retrieval.language = "hindi" /\ retrieval.failure = "none"
  /\ ~kb.hindi_index.built /\ kb.english_index.built /\ kb.model
  /\ retrieval.result.verses = <<>>

\* the store holds a session record with this id
SessionStored(session_id) ==
  \E i \in 1..Len(chat_sessions) : chat_sessions[i].id = session_id

\* C21: a request goes on to insert a session record only when its lookup
\* found none for its id, and when the lookup found one it goes on without
\* inserting; the record inserted carries the request's session id and
\* detected language and is written before the request's user message; a
\* user message is appended only under a session id that has a record.
C21_LazySessionCreation ==
  [][\A s \in Slots :
       /\ pc[s] = "find_session" /\ pc'[s] = "insert_session"
            => ~SessionStored(req[s].session_id)
       /\ pc[s] = "find_session" /\ pc'[s] \notin {"find_session", "insert_session"}
            => /\ chat_sessions' = chat_sessions
               /\ pc'[s] = "save_user" => SessionStored(req[s].session_id)
       /\ pc[s] = "insert_session" /\ pc'[s] # "insert_session"
            => /\ chat_messages' = chat_messages /\ ~req[s].persisted
               /\ \/ chat_sessions' = Append(chat_sessions,
                        ChatSession(req[s].session_id,
                                    detect_language(req[s].user_message), now))
                  \/ chat_sessions' = chat_sessions /\ pc'[s] = "idle" /\ reply'.status = 500
       /\ pc[s] # "insert_session" /\ pc'[s] # pc[s] => chat_sessions' = chat_sessions
       /\ pc[s] = "save_user" /\ pc'[s] # "save_user" /\ chat_messages' # chat_messages
            => SessionStored(req[s].session_id)]_vars
C21_Witness ==
  /\ Answered /\ reply.persisted /\ reply.language = "hindi"
  /\ Len(chat_sessions) = 1
  /\ chat_sessions[1].id = reply.session_id /\ chat_sessions[1].language = "hindi"
  /\ chat_messages # <<>> /\ chat_messages[1].sender = "user"
  /\ chat_messages[1].session_id = reply.session_id

\* a message of the store appears in the last history reply with the same
\* session id, sender and text
InHistory(m) ==
  \E j \in 1..Len(history.messages) :
    /\ history.messages[j].session_id = m.session_id
    /\ history.messages[j].sender = m.sender
    /\ history.messages[j].message = m.message
    /\ history.messages[j].timestamp = m.timestamp

\* C26 (as stated): whatever the number of messages already stored for a
\* session, a successful GET /api/chat/{id} returns every message stored
\* for that session, with its session id, sender and text.
C26_RoundTrip ==
  [][history' # history /\ history'.status = 200
       => \A i \in 1..Len(chat_messages) :
            chat_messages[i].session_id = history'.session_id => InHistory(chat_messages[i])']_vars

\* C27: a successful GET /api/chat/{id} returns at most 200 messages, all
\* stored under that id, in non-decreasing timestamp order (all of the
\* session's messages when there are at most 200), and the request changes
\* nothing but its own reply.
C27_HistoryFilteredSortedBounded ==
  /\ [](history.status = 200 =>
          /\ Len(history.messages) <= HISTORY_LIMIT
          /\ \A j \in 1..Len(history.messages) :
               history.messages[j].session_id = history.session_id
          /\ \A i, j \in 1..Len(history.messages) :
               i < j => history.messages[i].timestamp <= history.messages[j].timestamp)
  /\ [][history' # history
          => /\ UNCHANGED <<chat_sessions, chat_messages, rate_limit_storage, pc, req, reply>>
             /\ history'.status = 200 =>
                  LET stored == {i \in 1..Len(chat_messages) :
                                   chat_messages[i].session_id = history'.session_id}
                  IN  /\ \A j \in 1..Len(history'.messages) :
                           \E i \in stored : chat_messages[i] = history'.messages[j]
                      /\ Len(history'.messages) = MinOf({Cardinality(stored), HISTORY_LIMIT})]_vars
C27_Witness ==
  /\ history.status = 200 /\ history.session_id = SessionA
  /\ Len(history.messages) = HISTORY_LIMIT
  /\ \E i \in 1..Len(chat_messages) : chat_messages[i].session_id = SessionB
  /\ \E i \in 1..(Len(chat_messages) - 1) :
       chat_messages[i].timestamp > chat_messages[i+1].timestamp

\* a request past the rate limiter and the input checks, suspended at an await
InFlight(s) == pc[s] # "idle"

\* C28: every admitted, valid chat request eventually reaches a terminal
\* outcome (its slot has sent a reply) although the generation service never
\* responds, given that the store operations return: the wait is cut off at
\* the 30 s timeout and the fallback path completes the request
C28_BoundedWait ==
  \A s \in Slots : InFlight(s) ~> ~InFlight(s)

C28_Witness ==
  /\ reply.status = 200
  /\ reply.gen = "timeout"
  /\ reply.attempts = 1
  /\ reply.body.response = FallbackA
  /\ now >= GEN_TIMEOUT

\* C29: the generation service is invoked at most once per chat request: no
\* request in flight and no reply counts more than one attempt, and a request
\* whose attempt timed out or failed is past the wait, with the fallback text
\* as its response, and never returns to it
C29_NoRetry ==
  /\ \A s \in Slots : InFlight(s) => req[s].attempts <= 1
  /\ reply.status # 0 => reply.attempts <= 1
  /\ \A s \in Slots :
       InFlight(s) /\ req[s].gen \in {"timeout", "exception"} =>
         /\ pc[s] = "save_ai"
         /\ req[s].biblical_response.cited_verses = <<>>
         /\ req[s].biblical_response.response \in
              {FallbackA, fallback_responses(req[s].language)}

C29_Witness ==
  /\ Answered
  /\ reply.gen \in {"timeout", "exception"}
  /\ reply.attempts = 1
  /\ reply.generated = <<>>

\* C30: under any interleaving of concurrent chat requests, for the same or
\* for different sessions, the store only grows, by one message per step;
\* every appended message is written by one request, whose step leaves the
\* other requests untouched, and carries that request's own session id,
\* language and text: its user message, written once, at the first insert, or
\* its assistant message, written at the step that ends the request.  A
\* request that goes past the first insert, or is answered, has appended its
\* user message.
C30_ConcurrentIndependent ==
  [][/\ \/ chat_messages' = chat_messages
        \/ /\ Len(chat_messages') = Len(chat_messages) + 1
           /\ SubSeq(chat_messages', 1, Len(chat_messages)) = chat_messages
           /\ \E s \in Slots :
                LET m == chat_messages'[Len(chat_messages')]
                    r == req[s]
                IN  /\ \A t \in Slots \ {s} : pc'[t] = pc[t] /\ req'[t] = req[t]
                    /\ m.session_id = r.session_id
                    /\ m.language = r.language
                    /\ \/ /\ pc[s] = "save_user" /\ ~r.persisted
                          /\ m.sender = "user" /\ m.message = r.user_message
                       \/ /\ pc[s] = "save_ai" /\ pc'[s] = "idle"
                          /\ m.sender = "ai" /\ m.message = r.ai_response_text
                          /\ m.message = reply'.body.response
     /\ \A s \in Slots :
          /\ pc[s] = "save_user" /\ pc'[s] # "save_user"
          /\ pc'[s] # "idle" \/ reply'.status = 200
          => /\ Len(chat_messages') = Len(chat_messages) + 1
             /\ chat_messages'[Len(chat_messages')].sender = "user"
     /\ \A s \in Slots : pc'[s] \in {"generate", "save_ai"} => req'[s].persisted
     /\ reply'.status = 200 => reply'.persisted]_vars

C30_Witness ==
  /\ Len(chat_messages) >= 3
  /\ chat_messages[1].sender = "user" /\ chat_messages[2].sender = "user"
  /\ chat_messages[1].session_id # chat_messages[2].session_id
  /\ chat_messages[1].language # chat_messages[2].language
  /\ chat_messages[3].sender = "ai"
  /\ chat_messages[3].session_id = chat_messages[2].session_id
  /\ Answered
  /\ \E s \in Slots : pc[s] = "save_ai" /\ req[s].session_id = chat_messages[1].session_id

\* the characters U+0900..U+097F
Devanagari == 2304..2431
HasDevanagari(text) == {text[i] : i \in 1..Len(text)} \cap Devanagari # {}
LanguageOf(text) == IF HasDevanagari(text) THEN "hindi" ELSE "english"

\* C31: language detection is defined for every text and gives hindi exactly
\* when the normalized text has a character in U+0900..U+097F, english
\* otherwise; the language of a request is the one detected on its normalized
\* text, and the session record, both stored messages and the response of the
\* request carry it.
C31_LanguageDetection ==
  /\ [](/\ \A m \in LanguageMessages :
             LET text == validate_and_prepare_message(Strip(m), "user")
             IN  detect_language(text) \in {"english", "hindi"}
                 /\ (detect_language(text) = "hindi" <=> HasDevanagari(text))
        /\ \A s \in Slots : InFlight(s) => req[s].language = LanguageOf(req[s].user_message))
  /\ [][/\ \A s \in Slots :
             /\ pc[s] # "idle" /\ pc'[s] # pc[s] /\ chat_messages' # chat_messages
                  => chat_messages'[Len(chat_messages')].language = LanguageOf(req[s].user_message)
             /\ pc[s] # "idle" /\ pc'[s] # pc[s] /\ chat_sessions' # chat_sessions
                  => chat_sessions'[Len(chat_sessions')].language = LanguageOf(req[s].user_message)
        /\ reply' # reply /\ reply'.status = 200
             => /\ reply'.body.language = LanguageOf(reply'.user_message)
                /\ reply'.user_message = validate_and_prepare_message(Strip(reply'.raw_message), "user")]_vars

C31_Witness ==
  /\ Answered
  /\ reply.raw_message = Letters \o <<SPACE, 2431>>
  /\ reply.body.language = "hindi"
  /\ Len(chat_messages) = 2
  /\ chat_messages[1].language = "hindi" /\ chat_messages[2].language = "hindi"
  /\ chat_messages[1].sender = "user" /\ chat_messages[2].sender = "ai"

\* C32: the ids returned by successful POST /api/session calls are pairwise
\* different and well-formed; when a call has returned success the store
\* holds a session record with exactly that id; a chat request or a history
\* request that names a returned id is not rejected as an invalid session id,
\* and the chat request inserts no second record for it.
C32_FreshSessionIds ==
  /\ \A i, j \in 1..Len(created) :
       created[i].status = 200 /\ created[j].status = 200 /\ i # j
         => created[i].session_id # created[j].session_id
  /\ \A id \in ReturnedIds :
       /\ validate_session_id(id)
       /\ Cardinality({k \in 1..Len(chat_sessions) : chat_sessions[k].id = id}) = 1
  /\ reply.status # 0 /\ reply.session_id \in ReturnedIds
       => reply.status \notin {400, 500}
  /\ history.status # 0 /\ history.session_id \in ReturnedIds => history.status = 200

C32_Witness ==
  /\ Len(created) = 2
  /\ created[1].status = 200 /\ created[2].status = 200
  /\ Answered /\ reply.session_id = created[2].session_id
  /\ history.status = 200 /\ history.session_id = created[2].session_id
  /\ Len(history.messages) = 2
  /\ Len(chat_sessions) = 2

\* C33: after any sequence of admission checks the window of every client
\* holds at most RATE_LIMIT_REQUESTS timestamps in non-decreasing order, and
\* right after a check none of the timestamps it retains is older than
\* RATE_LIMIT_WINDOW seconds at the time of that check.
C33_WindowBound ==
  /\ [](\A c \in ClientIds :
          /\ Len(rate_limit_storage[c]) <= RATE_LIMIT_REQUESTS
          /\ \A i, j \in 1..Len(rate_limit_storage[c]) :
               i < j => rate_limit_storage[c][i] <= rate_limit_storage[c][j])
  /\ [][CallStep =>
          \A c \in ClientIds : \A i \in 1..Len(rate_limit_storage'[c]) :
            now - rate_limit_storage'[c][i] <= RATE_LIMIT_WINDOW]_vars

C33_Witness ==
  /\ now = RATE_LIMIT_WINDOW
  /\ \E c \in ClientIds :
       /\ Len(rate_limit_storage[c]) = RATE_LIMIT_REQUESTS
       /\ rate_limit_storage[c][1] < rate_limit_storage[c][RATE_LIMIT_REQUESTS]
       /\ rate_limit_storage[c][1] > 0
  /\ Len(admitted) > RATE_LIMIT_REQUESTS

\* C34 (as stated): an admission check drops exactly the timestamps more than
\* RATE_LIMIT_WINDOW seconds old, so a timestamp exactly RATE_LIMIT_WINDOW
\* seconds old is still counted: the check rejects when RATE_LIMIT_REQUESTS
\* timestamps are at most RATE_LIMIT_WINDOW seconds old.
C34_PruningBoundary ==
  [][CallStep =>
       \A c \in ClientIds :
         LET counted == SelectSeq(rate_limit_storage[c],
                                  LAMBDA t : now - t <= RATE_LIMIT_WINDOW)
         IN  IF Len(counted) >= RATE_LIMIT_REQUESTS
             THEN rate_limit_storage'[c] = counted /\ reply'.status = 429
             ELSE rate_limit_storage'[c] = counted \o <<now>>]_vars

\* C35 (as stated): after any interleaving of concurrent chat requests and
\* POST /api/session calls the store holds at most one session record per
\* session id.
C35_SessionUnique ==
  \A i, j \in 1..Len(chat_sessions) :
    i # j => chat_sessions[i].id # chat_sessions[j].id

\* C36 (as stated): with a healthy store no chat request ends in a server
\* error, whatever its message and session id values: every reply is a
\* structured rejection (400, 429) or a normal response (200).
C36_NoServerErrorWhenHealthy ==
  reply.status # 0 => reply.status \in {200, 400, 429}

\* a text without leading or trailing whitespace, without two whitespace
\* characters in a row and without the characters < > { }
WhitespaceClean(text) ==
  /\ text # <<>> => ~IsSpace(text[1]) /\ ~IsSpace(text[Len(text)])
  /\ \A i \in 1..(Len(text) - 1) : ~(IsSpace(text[i]) /\ IsSpace(text[i+1]))
MarkupFree(text) == \A i \in 1..Len(text) : text[i] \notin UnsafeChars

\* C37 (as stated): the normalized text, under the inbound and the outbound
\* policy, has no leading or trailing whitespace, no run of two or more
\* whitespace characters and none of < > { }: this holds of the normalized
\* text of every request in flight and of every stored message.
C37_NormalizedIsClean ==
  /\ \A s \in Slots :
       InFlight(s) => WhitespaceClean(req[s].user_message) /\ MarkupFree(req[s].user_message)
  /\ \A i \in 1..Len(chat_messages) :
       WhitespaceClean(chat_messages[i].message) /\ MarkupFree(chat_messages[i].message)

\* the ends of the whole-sentence prefixes of a text: the positions of the
\* periods that are followed by a blank
SentenceEnds(text) == {k \in 1..(Len(text) - 1) : text[k] = 46 /\ text[k+1] = 32}

\* outbound truncation as the claim describes it: a text within the limit is
\* left alone; a longer one is cut to its longest prefix of whole sentences
\* that has at most MAX_AI_LENGTH characters, if there is one, and otherwise
\* cut at MAX_AI_LENGTH with an ellipsis
SentenceAwareCut(text) ==
  LET fitting == {k \in SentenceEnds(text) : k <= MAX_AI_LENGTH}
  IN  IF Len(text) <= MAX_AI_LENGTH THEN text
      ELSE IF fitting # {} THEN SubSeq(text, 1, MaxOf(fitting))
      ELSE SubSeq(text, 1, MAX_AI_LENGTH) \o Ellipsis

\* C38 (as stated): the assistant text prepared for storage is the response
\* text, trimmed and with collapsed whitespace, cut as described above when it
\* has more than 2500 characters, and then freed of < > { }.
C38_SentenceAwareTruncation ==
  \A s \in Slots :
    pc[s] = "save_ai" =>
      req[s].ai_response_text =
        RemoveUnsafe(SentenceAwareCut(
          CollapseWhitespace(Strip(req[s].biblical_response.response))))

\* the request (locals r) was admitted by the rate limiter, carries a
\* well-formed session id and its text is the normalized inbound text
PassedGate(r) ==
  /\ \E i \in 1..Len(admitted) : admitted[i].caller = r.caller
  /\ validate_session_id(r.session_id)
  /\ r.user_message = validate_and_prepare_message(Strip(r.raw_message), "user")

\* C39 (as stated): a request that is at the call of the generation service,
\* on POST /api/chat or on the WebSocket connection, has been admitted by the
\* rate limiter, has a validated session id and a normalized text.
C39_NoBypass ==
  /\ \A s \in Slots : pc[s] = "generate" => PassedGate(req[s])
  /\ ws.pc = "generate" => PassedGate(ws)

\* the part of C39 that is about POST /api/chat
C39_HttpGated ==
  \A s \in Slots : pc[s] = "generate" => PassedGate(req[s])

\* the messages of the stream's session inserted after the stream was opened,
\* in the order of their insertion
AppendedWhileOpen ==
  SelectSeq(SubSeq(chat_messages, stream.opened_at + 1, Len(chat_messages)),
            LAMBDA m : m.session_id = stream.session_id)

\* the messages of the "new_message" events yielded so far, in order
EmittedMessages ==
  LET news == SelectSeq(stream.events, LAMBDA e : e.type = "new_message")
  IN  [i \in 1..Len(news) |-> news[i].message]

IsPrefix(a, b) == Len(a) <= Len(b) /\ SubSeq(b, 1, Len(a)) = a

InSeq(x, q) == \E i \in 1..Len(q) : q[i] = x

\* no turn of the loop is pending: the stream has polled since the last insert
StreamCaughtUp ==
  /\ stream.pc = "poll"
  /\ stream.polls > 0
  /\ stream.last_message_count = Len(find_stream_messages(stream.session_id))

\* C40 (as stated): the first event of a stream is "connected"; the messages
\* appended to the session while the stream is open are emitted as
\* new_message events once each and in append order, so at every moment the
\* emitted ones are an initial part of the appended ones, and once the stream
\* has polled after the last insert all of them have been emitted.
C40_StreamDelivery ==
  stream # NoStream =>
    /\ stream.events[1].type = "connected"
    /\ LET emitted == SelectSeq(EmittedMessages,
                                LAMBDA m : InSeq(m, AppendedWhileOpen))
       IN  /\ IsPrefix(emitted, AppendedWhileOpen)
           /\ StreamCaughtUp => emitted = AppendedWhileOpen

\* the part of C40 about the first event
C40_ConnectedFirst ==
  stream # NoStream =>
    /\ stream.events[1].type = "connected"
    /\ \A i \in 2..Len(stream.events) : stream.events[i].type # "connected"

====
